---- MODULE Spec2Model ----
(***************************************************************************)
(* Model of the session / rate-limiting core of the Trade Opportunities    *)
(* API: the token bucket (app/core/rate_limit.py), the session and the     *)
(* session manager (app/core/session.py) and the admission gate of the     *)
(* analyze endpoint (app/api/v1/endpoints/analysis.py), the health         *)
(* endpoint (app/api/v1/endpoints/health.py) and the user store with its    *)
(* register and login endpoints (app/core/auth.py,                          *)
(* app/api/v1/endpoints/auth.py).                                           *)
(*                                                                         *)
(* Time is counted in whole seconds.  `mono` is time.monotonic(), `wall`   *)
(* is datetime.now(timezone.utc).                                          *)
(***************************************************************************)
EXTENDS Integers, Sequences, FiniteSets, TLC

VARIABLES
    settings,    \* app.config.settings: the values SessionInfo.__init__ reads
    sessions,    \* session_manager._sessions: dict client_id -> SessionInfo
    mono,        \* the monotonic clock
    wall,        \* the wall clock
    ticks,       \* number of clock advances so far (bounds the run)
    status,      \* per identity: HTTP status of its last analyze response (0: none yet)
    admitted,    \* per identity: instants (mono) of its latest admitted requests
    verdict,     \* per identity: its latest two admission verdicts, oldest first
    calls,       \* per identity: allow_request calls on its current session that returned true
    limiter,     \* a RateLimiter constructed on its own (NoLimiter before that)
    history,     \* when `limiter` was constructed, and its allow_request calls since
    inflight,    \* per identity: its admitted requests that wait at an await of the handler
    reply,       \* what the latest call of a directory operation or auth endpoint returned
    users_db,    \* app.core.auth.users_db: dict username -> hashed password
    flow,        \* the codes of alice's register, login with the same password, analyze
    reports,     \* the reports directory: dict filename -> content of the file
    saved        \* the paths save_analysis_report has returned so far

vars == <<settings, sessions, mono, wall, ticks, status, verdict, admitted,
          calls, limiter, history, inflight, reply, users_db, flow, reports,
          saved>>

\* the report files; no handler reads them
fileVars == <<reports, saved>>

\* what the analyze endpoint run one request at a time leaves alone
auxVars == <<inflight, reply, users_db, flow, fileVars>>

sysVars == <<settings, sessions, wall, ticks, status, verdict, admitted, calls,
             auxVars>>

----------------------------------------------------------------------------
(* Program constants (app/config.py) *)

ACCESS_TOKEN_EXPIRE_MINUTES == 60

RATE_LIMIT_CAPACITY == 5

RATE_LIMIT_REFILL_SECONDS == 60

(* Bounds of the model *)

\* largest capacity given to a RateLimiter constructed on its own
MaxCapacity == 3

\* largest refill interval given to a RateLimiter constructed on its own
MaxRefill == 3

\* the monotonic clock of the stand-alone limiter runs from 0 to MaxMono
MaxMono == 7

\* most allow_request calls recorded on one stand-alone limiter
MaxCalls == 5

\* most clock advances in a run of the service with one identity
MaxTicks == 5

\* most clock advances in a run of the service with two identities
MaxPairTicks == 1

\* most clock advances in a run that records admission instants
MaxWindowTicks == 3

\* a request of an identity starts only while fewer than MaxInFlight of its
\* requests wait at an await
MaxInFlight == 6

\* most clock advances in a run with concurrent requests
MaxConcurrentTicks == 2

\* most clock advances in a run of the session manager used on its own
MaxDirectoryTicks == 2

\* a session of the session manager used on its own is asked allow_request
\* only while its usage_count is below MaxUsage
MaxUsage == 1

\* the rate-limit values of a deployment's configuration run from -1 to
\* MaxConfigValue
MaxConfigValue == 2

\* most clock advances in a run of a deployment with its own configuration
MaxConfiguredTicks == 3

\* most clock advances in a run whose configuration changes
MaxReconfiguredTicks == 2

\* most clock advances in a run with the register and login endpoints
MaxAuthTicks == 1

\* most clock advances in a run that watches the Session object of a request
MaxGateTicks == 3

\* clock advances after which, in the runs under fairness, only a refused
\* identity goes on
MaxFairTicks == 3

\* most changes of a clock in a run where the two clocks go their own ways
MaxClockTicks == 3

\* most clock advances in a run with every endpoint
MaxFrameTicks == 1

\* most files in the reports directory before a report is saved
MaxReports == 4

\* most clock advances in a run that saves reports
MaxReportTicks == 1

\* most clock advances in a run with requests for sectors of every shape
MaxSectorTicks == 2

\* most clock advances in a run with requests under any Authorization header
MaxBearerTicks == 1

\* in a run with the register and login endpoints an identity makes a
\* request only while the usage_count of its session is below MaxAuthUsage
MaxAuthUsage == 1

Users == {"alice", "bob"}

NoLimiter == [capacity |-> 0, refill_seconds |-> 0, tokens |-> 0, last_refill |-> 0]

Min(a, b) == IF a <= b THEN a ELSE b

----------------------------------------------------------------------------
(* Python dict *)

DictSet(d, k, v) == [x \in (DOMAIN d) \cup {k} |-> IF x = k THEN v ELSE d[x]]

DictPop(d, k) == [x \in (DOMAIN d) \ {k} |-> d[x]]

----------------------------------------------------------------------------
(* app/core/rate_limit.py *)

RateLimiter_init(capacity, refill_seconds, now) ==
    [capacity |-> capacity,
     refill_seconds |-> refill_seconds,
     tokens |-> capacity,
     last_refill |-> now]

\* a refill that forgets the cap `min(capacity, ...)`
RateLimiter_refill_uncapped(rl, now) ==
    LET elapsed == now - rl.last_refill IN
    IF elapsed >= rl.refill_seconds
    THEN LET steps == elapsed \div rl.refill_seconds
             refill_amount == steps * rl.capacity
         IN [rl EXCEPT !.tokens = rl.tokens + refill_amount, !.last_refill = now]
    ELSE rl

\* a refill that trickles: it grants the share of the quota the elapsed part
\* of an interval stands for
RateLimiter_refill_trickle(rl, now) ==
    LET elapsed == now - rl.last_refill IN
    IF elapsed > 0
    THEN [rl EXCEPT !.tokens = Min(rl.capacity,
                                   rl.tokens + (elapsed * rl.capacity) \div rl.refill_seconds),
                    !.last_refill = now]
    ELSE rl

\* a refill that needs more than a whole interval (`>` for `>=`)
RateLimiter_refill_late(rl, now) ==
    LET elapsed == now - rl.last_refill IN
    IF elapsed > rl.refill_seconds
    THEN [rl EXCEPT !.tokens = rl.capacity, !.last_refill = now]
    ELSE rl

\* a bucket that is never refilled
RateLimiter_refill_never(rl, now) == rl

\* a refill that grants one token for each whole interval
RateLimiter_refill_per_token(rl, now) ==
    LET elapsed == now - rl.last_refill IN
    IF elapsed >= rl.refill_seconds
    THEN LET steps == elapsed \div rl.refill_seconds
         IN [rl EXCEPT !.tokens = Min(rl.capacity, rl.tokens + steps),
                       !.last_refill = now]
    ELSE rl

\* a refill that stamps last_refill at every call
RateLimiter_refill_restamp(rl, now) ==
    LET elapsed == now - rl.last_refill IN
    IF elapsed >= rl.refill_seconds
    THEN [rl EXCEPT !.tokens = rl.capacity, !.last_refill = now]
    ELSE [rl EXCEPT !.last_refill = now]

\* lines 36-43: refill in whole intervals
RateLimiter_refill(rl, now) ==
    LET elapsed == now - rl.last_refill IN
    IF elapsed >= rl.refill_seconds
    THEN LET steps == elapsed \div rl.refill_seconds
             refill_amount == steps * rl.capacity
         IN [rl EXCEPT !.tokens = Min(rl.capacity, rl.tokens + refill_amount),
                       !.last_refill = now]
    ELSE rl

\* a consume that is off by one (`>=` for `>`)
RateLimiter_consume_off_by_one(rl) ==
    IF rl.tokens >= 0
    THEN [limiter |-> [rl EXCEPT !.tokens = rl.tokens - 1], allowed |-> TRUE]
    ELSE [limiter |-> rl, allowed |-> FALSE]

\* lines 45-50: consume a token when one is there
RateLimiter_consume(rl) ==
    IF rl.tokens > 0
    THEN [limiter |-> [rl EXCEPT !.tokens = rl.tokens - 1], allowed |-> TRUE]
    ELSE [limiter |-> rl, allowed |-> FALSE]

RateLimiter_allow_request(rl, now) ==
    RateLimiter_consume(RateLimiter_refill(rl, now))

\* line 40, `elapsed // self.refill_seconds`, raises ZeroDivisionError
RateLimiter_raises(rl, now) ==
    LET elapsed == now - rl.last_refill IN
    elapsed >= rl.refill_seconds /\ rl.refill_seconds = 0

----------------------------------------------------------------------------
(* app/core/session.py *)

\* a SessionInfo that reads the values the module was shipped with, not the
\* ones configured when it is constructed
SessionInfo_init_shipped(client_id, cfg, wallNow, monoNow) ==
    [client_id |-> client_id,
     created_at |-> wallNow,
     expires_in |-> ACCESS_TOKEN_EXPIRE_MINUTES * 60,
     rate_limiter |-> RateLimiter_init(RATE_LIMIT_CAPACITY,
                                       RATE_LIMIT_REFILL_SECONDS, monoNow),
     usage_count |-> 0]

\* a SessionInfo whose bucket is stamped with the wall clock
SessionInfo_init_one_clock(client_id, cfg, wallNow, monoNow) ==
    [client_id |-> client_id,
     created_at |-> wallNow,
     expires_in |-> cfg.ACCESS_TOKEN_EXPIRE_MINUTES * 60,
     rate_limiter |-> RateLimiter_init(cfg.RATE_LIMIT_CAPACITY,
                                       cfg.RATE_LIMIT_REFILL_SECONDS, wallNow),
     usage_count |-> 0]

SessionInfo_init(client_id, cfg, wallNow, monoNow) ==
    [client_id |-> client_id,
     created_at |-> wallNow,
     expires_in |-> cfg.ACCESS_TOKEN_EXPIRE_MINUTES * 60,
     rate_limiter |-> RateLimiter_init(cfg.RATE_LIMIT_CAPACITY,
                                       cfg.RATE_LIMIT_REFILL_SECONDS, monoNow),
     usage_count |-> 0]

\* an expiry that is reached at the lifetime itself (`>=` for `>`)
is_expired_inclusive(session, wallNow) ==
    (wallNow - session.created_at) >= session.expires_in

\* an expiry that compares the clock, not the age, with the lifetime
is_expired_absolute(session, wallNow) ==
    wallNow > session.expires_in

is_expired(session, wallNow) ==
    (wallNow - session.created_at) > session.expires_in

\* an allow_request that counts every call, refused ones included
SessionInfo_allow_request_counts_all(session, monoNow) ==
    LET r == RateLimiter_allow_request(session.rate_limiter, monoNow) IN
    [session |-> [session EXCEPT !.rate_limiter = r.limiter,
                                 !.usage_count = session.usage_count + 1],
     allowed |-> r.allowed]

\* an allow_request that lets a session live longer each time it grants
SessionInfo_allow_request_renews(session, monoNow) ==
    LET r == RateLimiter_allow_request(session.rate_limiter, monoNow) IN
    [session |-> [session EXCEPT
                     !.rate_limiter = r.limiter,
                     !.usage_count = IF r.allowed THEN session.usage_count + 1
                                     ELSE session.usage_count,
                     !.expires_in = IF r.allowed
                                    THEN session.expires_in + r.limiter.refill_seconds
                                    ELSE session.expires_in],
     allowed |-> r.allowed]

SessionInfo_allow_request(session, monoNow) ==
    LET r == RateLimiter_allow_request(session.rate_limiter, monoNow) IN
    [session |-> [session EXCEPT
                     !.rate_limiter = r.limiter,
                     !.usage_count = IF r.allowed THEN session.usage_count + 1
                                     ELSE session.usage_count],
     allowed |-> r.allowed]

\* a get_session that hands a new identity the session of an identity that
\* is already there
get_session_shared(ss, client_id, cfg, wallNow, monoNow) ==
    IF client_id \notin DOMAIN ss
    THEN DictSet(ss, client_id,
                 IF DOMAIN ss = {}
                 THEN SessionInfo_init(client_id, cfg, wallNow, monoNow)
                 ELSE ss[CHOOSE k \in DOMAIN ss : TRUE])
    ELSE ss

\* a get_session that creates a session whether or not one is there, as a
\* check-then-act race between two first requests would
get_session_recreate(ss, client_id, cfg, wallNow, monoNow) ==
    DictSet(ss, client_id, SessionInfo_init(client_id, cfg, wallNow, monoNow))

get_session(ss, client_id, cfg, wallNow, monoNow) ==
    IF client_id \notin DOMAIN ss
    THEN DictSet(ss, client_id, SessionInfo_init(client_id, cfg, wallNow, monoNow))
    ELSE ss

\* a remove_session that removes nothing
remove_session_nothing(ss, client_id) == ss

\* a remove_session that empties the directory
remove_session_clear(ss, client_id) == [x \in {} |-> 0]

\* lines 65-67: `self._sessions.pop(client_id, None)`
remove_session(ss, client_id) == DictPop(ss, client_id)

\* lines 79-80: `for client_id in expired: self.remove_session(client_id)`
RECURSIVE remove_each(_, _)
remove_each(ss, expired) ==
    IF expired = {} THEN ss
    ELSE LET client_id == CHOOSE c \in expired : TRUE IN
         remove_each(remove_session(ss, client_id), expired \ {client_id})

\* a cleanup that takes every session for expired
cleanup_expired_sessions_all(ss, wallNow) ==
    [sessions |-> remove_each(ss, DOMAIN ss), removed |-> Cardinality(DOMAIN ss)]

\* lines 69-82: the sessions it leaves, and the number it returns
cleanup_expired_sessions(ss, wallNow) ==
    LET expired == {client_id \in DOMAIN ss : is_expired(ss[client_id], wallNow)} IN
    [sessions |-> remove_each(ss, expired), removed |-> Cardinality(expired)]

\* a count that leaves out the sessions that are expired
active_sessions_unexpired(ss) ==
    Cardinality({client_id \in DOMAIN ss : ~is_expired(ss[client_id], wall)})

\* lines 84-87: `len(self._sessions)`
active_sessions(ss) == Cardinality(DOMAIN ss)

----------------------------------------------------------------------------
(* app/models/analysis.py: SectorParam.  A sector is a sequence of           *)
(* characters; "a" and "b" stand for letters, " " for whitespace and the     *)
(* rest for characters that are neither.                                     *)

Letters == {"a", "b"}

IsAlpha(c) == c \in Letters

IsSpace(c) == c = " "

Rep(c, n) == [i \in 1..n |-> c]

RECURSIVE LStrip(_)
LStrip(v) == IF v # <<>> /\ IsSpace(Head(v)) THEN LStrip(Tail(v)) ELSE v

RECURSIVE RStrip(_)
RStrip(v) ==
    IF v # <<>> /\ IsSpace(v[Len(v)]) THEN RStrip(SubSeq(v, 1, Len(v) - 1)) ELSE v

Strip(v) == RStrip(LStrip(v))

\* Field(min_length=2, max_length=50), checked on the raw value
SectorParam_field(v) == Len(v) >= 2 /\ Len(v) <= 50

\* validate_sector: TRUE when no ValueError is raised
validate_sector(raw) ==
    LET v == Strip(raw) IN
    /\ ~(Len(v) < 2)
    /\ ~(Len(v) > 50)
    /\ \E i \in 1..Len(v) : v[i] # " "
    /\ \A i \in 1..Len(v) : IsAlpha(v[i]) \/ IsSpace(v[i])
    /\ ~(\E i \in 1..(Len(v) - 4) : \A j \in 0..4 : v[i + j] = " ")

\* SectorParam(sector=sector) constructs without raising
SectorParam(sector) == SectorParam_field(sector) /\ validate_sector(sector)

\* The sectors requests are made with: one that validates, one that does not
Sectors == { <<"a", " ", "b">>, <<"a", "1">> }
\* one that validates
GoodSector == <<"a", " ", "b">>

\* one that does not
BadSector == <<"a", "1">>

\* What the downstream work of an admitted request does
Outcomes == {"ok", "collect_failed", "llm_failed"}

----------------------------------------------------------------------------
(* app/core/security.py.  A hashed password is a string, a token is the      *)
(* payload a JWT carries together with the key it was signed with.           *)

SECRET_KEY == "secret"

hash_password(password) == "$2b$" \o password

verify_password(plain_password, hashed_password) ==
    hashed_password = hash_password(plain_password)

create_access_token(data, expires_delta, now) ==
    [sub |-> data.sub, exp |-> now + expires_delta, key |-> SECRET_KEY]

\* the payload as a one-element sequence, or the empty sequence (None) for
\* a token that was signed with another key or is past its exp
decode_access_token(token, now) ==
    IF token.key # SECRET_KEY \/ token.exp < now THEN <<>>
    ELSE <<[sub |-> token.sub, exp |-> token.exp]>>

\* the response of a request that is given no token
NoToken == [sub |-> "None", exp |-> 0, key |-> ""]

(* app/dependencies.py *)

\* line 10, oauth2_scheme = OAuth2PasswordBearer(...): the token of an
\* `Authorization: Bearer <token>` header as a one-element sequence, or the
\* empty sequence for the 401 it raises on any other header
oauth2_scheme(header) ==
    IF header.scheme = "Bearer" THEN <<header.token>> ELSE <<>>

\* a get_current_user that takes the subject a token names without having
\* it verified
get_current_user_unverified(token, now) ==
    IF token.sub = "None" THEN "401" ELSE token.sub

\* get_current_user: the username, or "401" for the HTTPException
get_current_user(token, now) ==
    LET payload == decode_access_token(token, now) IN
    IF payload = <<>> THEN "401"
    ELSE IF payload[1].sub = "None" THEN "401"
    ELSE payload[1].sub

(* app/models/auth.py *)

\* UserRegister(username=..., password=...) constructs without raising
UserRegister(username, password) ==
    /\ Len(username) >= 3 /\ Len(username) <= 50
    /\ Len(password) >= 6 /\ Len(password) <= 100

(* app/core/auth.py *)

\* an authenticate_user that does not look at the password
authenticate_user_any_password(db, username, password) ==
    IF username \in DOMAIN db THEN username ELSE "None"

\* authenticate_user: the username, or "None"
authenticate_user(db, username, password) ==
    LET hashed_password == IF username \in DOMAIN db THEN db[username] ELSE "None" IN
    IF hashed_password = "None" \/ hashed_password = "" THEN "None"
    ELSE IF ~verify_password(password, hashed_password) THEN "None"
    ELSE username

\* a register_user that does not look whether the username is there
register_user_overwrite(db, username, password) ==
    [users_db |-> DictSet(db, username, hash_password(password)), raised |-> 0]

\* register_user: the user store it leaves, and the status of the
\* HTTPException it raises (0 when it raises none)
register_user(db, username, password) ==
    IF username \in DOMAIN db
    THEN [users_db |-> db, raised |-> 400]
    ELSE [users_db |-> DictSet(db, username, hash_password(password)), raised |-> 0]

(* app/api/v1/endpoints/auth.py *)

access_token_expires(cfg) == cfg.ACCESS_TOKEN_EXPIRE_MINUTES * 60

\* POST /register: the user store it leaves, its status code and the token
\* of its body.  The body is validated before the handler runs
register(db, username, password, cfg, now) ==
    IF ~UserRegister(username, password)
    THEN [users_db |-> db, code |-> 422, access_token |-> NoToken]
    ELSE LET r == register_user(db, username, password) IN
         IF r.raised # 0
         THEN [users_db |-> r.users_db, code |-> r.raised, access_token |-> NoToken]
         ELSE [users_db |-> r.users_db, code |-> 201,
               access_token |-> create_access_token([sub |-> username],
                                                    access_token_expires(cfg), now)]

\* a login whose token carries no subject
login_subjectless(db, username, password, cfg, now) ==
    LET user == authenticate_user(db, username, password) IN
    IF user = "None"
    THEN [code |-> 401, access_token |-> NoToken]
    ELSE [code |-> 200,
          access_token |-> create_access_token([sub |-> "None"],
                                               access_token_expires(cfg), now)]

\* POST /token: its status code and the token of its body
login(db, username, password, cfg, now) ==
    LET user == authenticate_user(db, username, password) IN
    IF user = "None"
    THEN [code |-> 401, access_token |-> NoToken]
    ELSE [code |-> 200,
          access_token |-> create_access_token([sub |-> user],
                                               access_token_expires(cfg), now)]

----------------------------------------------------------------------------
(* app/services/llm_client.py.  A filename and the content of a file are    *)
(* sequences of characters; the reports directory is a dict from the        *)
(* filenames in it to their content.                                        *)

Digits == <<"0", "1", "2", "3", "4", "5", "6", "7", "8", "9">>

\* str(n) of a natural number
RECURSIVE str(_)
str(n) == IF n < 10 THEN <<Digits[n + 1]>>
          ELSE str(n \div 10) \o <<Digits[(n % 10) + 1]>>

\* s.rfind(sep), counted from 1; 0 when sep does not occur
rfind(s, sep) ==
    LET at == {i \in 1..(Len(s) - Len(sep) + 1) :
                  SubSeq(s, i, i + Len(sep) - 1) = sep}
    IN IF at = {} THEN 0 ELSE CHOOSE i \in at : \A j \in at : j <= i

\* s.rsplit(sep, 1)
rsplit(s, sep) ==
    LET i == rfind(s, sep) IN
    IF i = 0 THEN <<s>>
    ELSE <<SubSeq(s, 1, i - 1), SubSeq(s, i + Len(sep), Len(s))>>

\* datetime.now().strftime("%Y%m%d_%H%M%S"): the digits of the second
strftime(now) == str(now)

analysis_report == <<"a", "n", "a", "l", "y", "s", "i", "s", "_",
                     "r", "e", "p", "o", "r", "t", "_">>

\* lines 46-54 and 57-65, `while True`: the first name head_(counter)tail,
\* counting up, that is not in the directory
RECURSIVE increment(_, _, _, _)
increment(dir, head, tail, counter) ==
    LET new_filename == head \o <<"_", "(">> \o str(counter) \o <<")">> \o tail IN
    IF new_filename \notin DOMAIN dir THEN new_filename
    ELSE increment(dir, head, tail, counter + 1)

\* a save_analysis_report that writes to the filename it was given
save_analysis_report_overwrite(dir, markdown_text, filename, now) ==
    LET name == IF filename = <<>>
                THEN analysis_report \o strftime(now) \o <<".", "m", "d">>
                ELSE filename
    IN [reports |-> DictSet(dir, name, Strip(markdown_text)), file_path |-> name]

\* save_analysis_report(markdown_text, filename) on the directory dir at
\* instant now (filename <<>>: None or ""): the directory after the call and
\* the path returned
save_analysis_report(dir, markdown_text, filename, now) ==
    LET formatted_text == Strip(markdown_text)
        given == IF filename = <<>>
                 THEN analysis_report \o strftime(now) \o <<".", "m", "d">>
                 ELSE filename
        name_parts == rsplit(given, <<".">>)
        base_name == name_parts[1]
        extension == IF Len(name_parts) > 1 THEN name_parts[2] ELSE <<>>
        by == <<"_", "b", "y", "_">>
        file_path ==
            IF given \notin DOMAIN dir THEN given
            ELSE IF rfind(base_name, by) # 0
                 THEN increment(dir, rsplit(base_name, by)[1],
                                by \o rsplit(base_name, by)[2] \o <<".">> \o extension, 2)
                 ELSE increment(dir, base_name, <<".">> \o extension, 2)
    IN [reports |-> DictSet(dir, file_path, formatted_text), file_path |-> file_path]

----------------------------------------------------------------------------
(* The service *)

EmptyDict == [x \in {} |-> 0]

\* no request of an identity waits for data collection or for the LLM
NoneInFlight == [collecting |-> 0, generating |-> 0]

\* nothing was called yet
NoReply == [op |-> "None", code |-> 0, value |-> "None"]

\* alice has not registered yet
NoFlow == [password |-> "", codes |-> <<>>]

DefaultSettings ==
    [ACCESS_TOKEN_EXPIRE_MINUTES |-> ACCESS_TOKEN_EXPIRE_MINUTES,
     RATE_LIMIT_CAPACITY |-> RATE_LIMIT_CAPACITY,
     RATE_LIMIT_REFILL_SECONDS |-> RATE_LIMIT_REFILL_SECONDS]

\* app/config.py, Settings.__init__: TRUE when it raises nothing.  It looks
\* at SECRET_KEY and at nothing else
Settings_init(cfg, secret_key) == secret_key # ""

\* the module state of a process that has just started
Started ==
    /\ sessions = EmptyDict
    /\ mono = 0
    /\ wall = 0
    /\ ticks = 0
    /\ status = [u \in Users |-> 0]
    /\ verdict = [u \in Users |-> <<"None", "None">>]
    /\ admitted = [u \in Users |-> <<>>]
    /\ calls = [u \in Users |-> 0]
    /\ limiter = NoLimiter
    /\ history = [born |-> 0, calls |-> <<>>]
    /\ inflight = [u \in Users |-> NoneInFlight]
    /\ reply = NoReply
    /\ users_db = EmptyDict
    /\ flow = NoFlow

\* no report has been written
NoReports == reports = EmptyDict /\ saved = {}

Init ==
    /\ settings = DefaultSettings
    /\ Settings_init(settings, "secret")
    /\ Started
    /\ NoReports

(* app/api/v1/endpoints/analysis.py: analyze_sector, for a request whose     *)
(* token get_current_user resolved to current_user.  The handler has no      *)
(* await between get_session and allow_request, so admission is one step of  *)
(* the event loop; the awaited collaborators touch no session state and      *)
(* their result is the input `outcome`.                                      *)
\* an admission whose write to a session that is already there is lost: it
\* decides on the session it read and leaves the directory as it was
admission_lost_update(ss, current_user, cfg, wallNow, monoNow) ==
    LET got == get_session(ss, current_user, cfg, wallNow, monoNow)
        session == got[current_user]
    IN IF is_expired(session, wallNow)
       THEN [sessions |-> remove_session(got, current_user), code |-> 401,
             session |-> session]
       ELSE IF RateLimiter_raises(session.rate_limiter, monoNow)
       THEN [sessions |-> got, code |-> 500, session |-> session]
       ELSE LET r == SessionInfo_allow_request(session, monoNow) IN
            [sessions |-> IF current_user \in DOMAIN ss THEN ss
                          ELSE [got EXCEPT ![current_user] = r.session],
             code |-> IF ~r.allowed THEN 429 ELSE 200,
             session |-> r.session]

\* an admission that enforces the rate limit before it looks at expiry
admission_limit_first(ss, current_user, cfg, wallNow, monoNow) ==
    LET got == get_session(ss, current_user, cfg, wallNow, monoNow)
        r == SessionInfo_allow_request(got[current_user], monoNow)
    IN IF ~r.allowed
       THEN [sessions |-> [got EXCEPT ![current_user] = r.session], code |-> 429,
             session |-> r.session]
       ELSE IF is_expired(r.session, wallNow)
       THEN [sessions |-> remove_session(got, current_user), code |-> 401,
             session |-> r.session]
       ELSE [sessions |-> [got EXCEPT ![current_user] = r.session], code |-> 200,
             session |-> r.session]

\* an admission that sweeps the expired sessions of every identity first
admission_sweeps(ss, current_user, cfg, wallNow, monoNow) ==
    LET swept == cleanup_expired_sessions(ss, wallNow).sessions
        got == get_session(swept, current_user, cfg, wallNow, monoNow)
        r == SessionInfo_allow_request(got[current_user], monoNow)
    IN [sessions |-> [got EXCEPT ![current_user] = r.session],
        code |-> IF current_user \in DOMAIN ss /\ current_user \notin DOMAIN swept
                 THEN 401
                 ELSE IF ~r.allowed THEN 429 ELSE 200,
        session |-> r.session]

\* lines 54-70: session lookup, expiry check, rate limit.  No handler
\* catches an exception of allow_request: the request is answered 500, the
\* session get_session filed stays.  `session` is the Session object the
\* handler holds, as the handler leaves it
admission(ss, current_user, cfg, wallNow, monoNow) ==
    LET got == get_session(ss, current_user, cfg, wallNow, monoNow)
        session == got[current_user]
    IN IF is_expired(session, wallNow)
       THEN [sessions |-> remove_session(got, current_user), code |-> 401,
             session |-> session]
       ELSE IF RateLimiter_raises(session.rate_limiter, monoNow)
       THEN [sessions |-> got, code |-> 500, session |-> session]
       ELSE LET r == SessionInfo_allow_request(session, monoNow) IN
            [sessions |-> [got EXCEPT ![current_user] = r.session],
             code |-> IF ~r.allowed THEN 429 ELSE 200,
             session |-> r.session]

analyze_sector(current_user, sector, outcome) ==
    /\ UNCHANGED <<settings, mono, wall, ticks, limiter, history>>
    /\ IF ~SectorParam(sector)
       THEN /\ status' = [status EXCEPT ![current_user] = 400]
            /\ UNCHANGED sessions
       ELSE LET a == admission(sessions, current_user, settings, wall, mono) IN
            /\ sessions' = a.sessions
            /\ status' = [status EXCEPT ![current_user] =
                             IF a.code = 200 /\ outcome # "ok" THEN 502 ELSE a.code]

\* the verdicts of the admission gate, as the HTTP layer reports them
Allowed(st) == st \in {200, 502}

SessionExpired(st) == st = 401

RateLimited(st) == st = 429

Verdict(st) ==
    IF Allowed(st) THEN "Allowed"
    ELSE IF SessionExpired(st) THEN "SessionExpired"
    ELSE IF RateLimited(st) THEN "RateLimited"
    ELSE "None"

(* Bookkeeping of a request, for the properties: the number of calls of      *)
(* allow_request that returned true on the identity's current session ...    *)
CountCalls(u) ==
    calls' = [calls EXCEPT ![u] =
                 IF status'[u] = 400 THEN @
                 ELSE (IF u \in DOMAIN sessions THEN @ ELSE 0)
                      + (IF Allowed(status'[u]) THEN 1 ELSE 0)]

\* ... and the instants of its latest RATE_LIMIT_CAPACITY + 1 admissions
Remember(seq, t) ==
    LET s == Append(seq, t)
        keep == settings.RATE_LIMIT_CAPACITY + 1
    IN IF Len(s) > keep THEN SubSeq(s, Len(s) - keep + 1, Len(s)) ELSE s

RecordAdmission(u) ==
    admitted' = [admitted EXCEPT ![u] =
                    IF Allowed(status'[u]) THEN Remember(@, mono) ELSE @]

\* ... and its latest two admission verdicts
RecordVerdict(u) ==
    verdict' = [verdict EXCEPT ![u] =
                   IF status'[u] = 400 THEN @ ELSE <<@[2], Verdict(status'[u])>>]

AnalyzeBy(U, O) == \E u \in U, sector \in Sectors, outcome \in O :
                    /\ analyze_sector(u, sector, outcome)
                    /\ CountCalls(u)
                    /\ UNCHANGED <<admitted, verdict, auxVars>>

\* time passes: both clocks advance by d seconds, d drawn from D
TickBy(D, most) ==
    /\ ticks < most
    /\ \E d \in D :
          /\ mono' = mono + d
          /\ wall' = wall + d
    /\ ticks' = ticks + 1
    /\ UNCHANGED <<settings, sessions, status, verdict, admitted, calls,
                   limiter, history, auxVars>>

Ttl == settings.ACCESS_TOKEN_EXPIRE_MINUTES * 60

\* clock advances of the runs with one identity: they reach one second
\* before, at and after a whole refill interval and the session lifetime
Deltas == {1, settings.RATE_LIMIT_REFILL_SECONDS - 1,
           Ttl - settings.RATE_LIMIT_REFILL_SECONDS}

\* clock advances of the runs with two identities: a refill interval, and
\* one second more than the session lifetime
PairDeltas == {settings.RATE_LIMIT_REFILL_SECONDS, Ttl + 1}

\* clock advances of the runs that record admission instants
WindowDeltas == {1, settings.RATE_LIMIT_REFILL_SECONDS - 1}

(* The service with two identities, the downstream work succeeding *)

Analyze == AnalyzeBy(Users, {"ok"})

Tick == TickBy(PairDeltas, MaxPairTicks)

Next == Analyze \/ Tick

Spec == Init /\ [][Next]_vars

(* The service with one identity, over a longer time *)

AnalyzeSolo ==
    \E sector \in Sectors, outcome \in Outcomes :
        /\ analyze_sector("alice", sector, outcome)
        /\ CountCalls("alice")
        /\ RecordVerdict("alice")
        /\ UNCHANGED <<admitted, auxVars>>

TickSolo == TickBy(Deltas, MaxTicks)

NextSolo == AnalyzeSolo \/ TickSolo

SpecSolo == Init /\ [][NextSolo]_vars

(* The service with one identity, the instants of its admissions recorded *)

AnalyzeRecorded ==
    \E sector \in Sectors, outcome \in Outcomes :
        /\ analyze_sector("alice", sector, outcome)
        /\ CountCalls("alice")
        /\ RecordAdmission("alice")
        /\ UNCHANGED <<verdict, auxVars>>

TickWindow == TickBy(WindowDeltas, MaxWindowTicks)

NextWindow == AnalyzeRecorded \/ TickWindow

SpecWindow == Init /\ [][NextWindow]_vars

(* The service with concurrent requests of one identity.  uvicorn runs the   *)
(* application in one process on one event loop (run.py), and analyze_sector *)
(* is a coroutine: requests interleave at its awaits and nowhere else.  A    *)
(* request runs from its start to `await data_collector.search_news` in one  *)
(* step, waits, runs to `await llm_client.analyze`, waits, and answers.      *)

\* lines 44-70: validation and admission, up to the first await
analyze_sector_enter(current_user, sector) ==
    /\ UNCHANGED <<settings, mono, wall, ticks, limiter, history>>
    /\ IF ~SectorParam(sector)
       THEN /\ status' = [status EXCEPT ![current_user] = 400]
            /\ UNCHANGED <<sessions, inflight>>
       ELSE LET a == admission(sessions, current_user, settings, wall, mono) IN
            /\ sessions' = a.sessions
            /\ IF a.code = 200
               THEN /\ inflight' = [inflight EXCEPT ![current_user].collecting = @ + 1]
                    /\ UNCHANGED status
               ELSE /\ status' = [status EXCEPT ![current_user] = a.code]
                    /\ UNCHANGED inflight

\* a handler that gives the token back when search_news raised
analyze_sector_collected_refund(current_user, outcome) ==
    /\ inflight[current_user].collecting > 0
    /\ UNCHANGED <<settings, mono, wall, ticks, limiter, history>>
    /\ IF outcome = "collect_failed"
       THEN /\ inflight' = [inflight EXCEPT ![current_user].collecting = @ - 1]
            /\ status' = [status EXCEPT ![current_user] = 502]
            /\ sessions' = IF current_user \in DOMAIN sessions
                           THEN [sessions EXCEPT
                                    ![current_user].rate_limiter.tokens = @ + 1,
                                    ![current_user].usage_count = @ - 1]
                           ELSE sessions
       ELSE /\ inflight' = [inflight EXCEPT ![current_user].collecting = @ - 1,
                                            ![current_user].generating = @ + 1]
            /\ UNCHANGED <<status, sessions>>

\* lines 74-80: search_news returned or raised
analyze_sector_collected(current_user, outcome) ==
    /\ inflight[current_user].collecting > 0
    /\ UNCHANGED <<settings, sessions, mono, wall, ticks, limiter, history>>
    /\ IF outcome = "collect_failed"
       THEN /\ inflight' = [inflight EXCEPT ![current_user].collecting = @ - 1]
            /\ status' = [status EXCEPT ![current_user] = 502]
       ELSE /\ inflight' = [inflight EXCEPT ![current_user].collecting = @ - 1,
                                            ![current_user].generating = @ + 1]
            /\ UNCHANGED status

\* lines 82-94: llm_client.analyze returned or raised
analyze_sector_generated(current_user, outcome) ==
    /\ inflight[current_user].generating > 0
    /\ UNCHANGED <<settings, sessions, mono, wall, ticks, limiter, history>>
    /\ inflight' = [inflight EXCEPT ![current_user].generating = @ - 1]
    /\ status' = [status EXCEPT ![current_user] =
                     IF outcome = "llm_failed" THEN 502 ELSE 200]

InFlight(u) == inflight[u].collecting + inflight[u].generating

\* bookkeeping: `calls` counts the requests admitted on the current session
CountAdmissions(u) ==
    calls' = [calls EXCEPT ![u] =
                 IF sessions' = sessions THEN @
                 ELSE (IF u \in DOMAIN sessions THEN @ ELSE 0)
                      + (InFlight(u)' - InFlight(u))]

Enter ==
    /\ InFlight("alice") < MaxInFlight
    /\ \E sector \in Sectors : analyze_sector_enter("alice", sector)
    /\ CountAdmissions("alice")
    /\ UNCHANGED <<admitted, verdict, reply, users_db, flow, fileVars>>

Collected ==
    /\ \E outcome \in {"ok", "collect_failed"} :
          analyze_sector_collected("alice", outcome)
    /\ UNCHANGED <<admitted, verdict, calls, reply, users_db, flow, fileVars>>

Generated ==
    /\ \E outcome \in {"ok", "llm_failed"} :
          analyze_sector_generated("alice", outcome)
    /\ UNCHANGED <<admitted, verdict, calls, reply, users_db, flow, fileVars>>

TickConcurrent == TickBy(WindowDeltas, MaxConcurrentTicks)

NextConcurrent == Enter \/ Collected \/ Generated \/ TickConcurrent

SpecConcurrent == Init /\ [][NextConcurrent]_vars

----------------------------------------------------------------------------
(* A deployment whose app/config.py carries its own rate-limit values *)

ConfigValues == -1..MaxConfigValue

SecretKeys == {"", "secret"}

Configurations ==
    [ACCESS_TOKEN_EXPIRE_MINUTES : {ACCESS_TOKEN_EXPIRE_MINUTES},
     RATE_LIMIT_CAPACITY : ConfigValues,
     RATE_LIMIT_REFILL_SECONDS : ConfigValues]

\* `settings = Settings()` at import: the process starts unless it raises
InitConfigured ==
    /\ settings \in Configurations
    /\ \E secret_key \in SecretKeys : Settings_init(settings, secret_key)
    /\ Started
    /\ NoReports

AnalyzeConfigured == AnalyzeBy({"alice"}, {"ok"})

TickConfigured == TickBy({1}, MaxConfiguredTicks)

NextConfigured == AnalyzeConfigured \/ TickConfigured

SpecConfigured == InitConfigured /\ [][NextConfigured]_vars

(* The service while attributes of `settings` are assigned at run time *)

Reconfigurations ==
    [ACCESS_TOKEN_EXPIRE_MINUTES : {1, ACCESS_TOKEN_EXPIRE_MINUTES},
     RATE_LIMIT_CAPACITY : {1, RATE_LIMIT_CAPACITY},
     RATE_LIMIT_REFILL_SECONDS : {1, RATE_LIMIT_REFILL_SECONDS}]

\* `settings.X = value` for one or more of the three attributes
Reconfigure ==
    /\ settings' \in Reconfigurations \ {settings}
    /\ UNCHANGED <<sessions, mono, wall, ticks, status, verdict, admitted, calls,
                   limiter, history, auxVars>>

AnalyzeReconfigured == AnalyzeBy({"alice"}, {"ok"})

\* clock advances of these runs: a second, and a minute
TickReconfigured == TickBy({1, RATE_LIMIT_REFILL_SECONDS}, MaxReconfiguredTicks)

NextReconfigured == Reconfigure \/ AnalyzeReconfigured \/ TickReconfigured

SpecReconfigured == Init /\ [][NextReconfigured]_vars

----------------------------------------------------------------------------
(* The service with its register and login endpoints.  The client presents   *)
(* to the analyze endpoint the token of the latest response that carried one *)

\* the usernames and passwords requests are made with: "al" and "short" are
\* shorter than UserRegister allows
Usernames == Users \cup {"al"}

Passwords == {"secret1", "secret2", "short"}

\* a registration that opens a session for the new user
register_request_opens_session(username, password) ==
    /\ LET r == register(users_db, username, password, settings, wall) IN
          /\ users_db' = r.users_db
          /\ reply' = [op |-> "register", code |-> r.code, value |-> r.access_token]
          /\ sessions' = IF r.code = 201 /\ username \in Users
                         THEN get_session(sessions, username, settings, wall, mono)
                         ELSE sessions
    /\ UNCHANGED <<settings, mono, wall, ticks, status, verdict,
                   admitted, calls, limiter, history, inflight, fileVars>>

register_request(username, password) ==
    /\ LET r == register(users_db, username, password, settings, wall) IN
          /\ users_db' = r.users_db
          /\ reply' = [op |-> "register", code |-> r.code, value |-> r.access_token]
    /\ UNCHANGED <<settings, sessions, mono, wall, ticks, status, verdict,
                   admitted, calls, limiter, history, inflight, fileVars>>

login_request(username, password) ==
    /\ LET r == login(users_db, username, password, settings, wall) IN
          reply' = [op |-> "login", code |-> r.code, value |-> r.access_token]
    /\ UNCHANGED <<settings, sessions, mono, wall, ticks, status, verdict,
                   admitted, calls, limiter, history, inflight, users_db,
                   fileVars>>

\* GET /analyze/{sector} with `Authorization: Bearer token`; a token
\* get_current_user turns away is answered 401 before the handler runs
analyze_request(token, sector, outcome) ==
    LET current_user == get_current_user(token, wall) IN
    IF current_user = "401"
    THEN /\ status' = [u \in Users |-> IF u = token.sub THEN 401 ELSE status[u]]
         /\ UNCHANGED <<settings, sessions, mono, wall, ticks, limiter, history>>
    ELSE analyze_sector(current_user, sector, outcome)

HasToken == reply.op \in {"register", "login"} /\ reply.code \in {200, 201}

\* bookkeeping: the codes of alice's registration, of her first login after
\* it with the password she registered, and of the first request made after
\* that with a token a login gave her
Register ==
    \E username \in Usernames, password \in Passwords :
        /\ register_request(username, password)
        /\ flow' = IF username = "alice" /\ reply'.code = 201
                   THEN [password |-> password, codes |-> <<201>>]
                   ELSE flow

Login ==
    \E username \in Usernames, password \in Passwords :
        /\ login_request(username, password)
        /\ flow' = IF /\ username = "alice"
                      /\ Len(flow.codes) = 1
                      /\ password = flow.password
                   THEN [flow EXCEPT !.codes = Append(@, reply'.code)]
                   ELSE flow

AnalyzeAuthenticated ==
    /\ HasToken
    /\ reply.value.sub \in DOMAIN sessions =>
           sessions[reply.value.sub].usage_count < MaxAuthUsage
    /\ analyze_request(reply.value, GoodSector, "ok")
    /\ flow' = IF /\ reply.op = "login"
                  /\ reply.value.sub = "alice"
                  /\ Len(flow.codes) = 2
               THEN [flow EXCEPT !.codes = Append(@, status'["alice"])]
               ELSE flow
    /\ UNCHANGED <<verdict, admitted, calls, inflight, reply, users_db, fileVars>>

\* clock advances of these runs: a second, and the token lifetime
TickAuth == TickBy({1, Ttl}, MaxAuthTicks)

NextAuth == Register \/ Login \/ AnalyzeAuthenticated \/ TickAuth

SpecAuth == Init /\ [][NextAuth]_vars

----------------------------------------------------------------------------
(* The admission gate with one identity, the Session object of each request *)
(* recorded as the handler left it                                          *)

\* clock advances of these runs: a second, a second less than a refill
\* interval, and what then lacks to the session lifetime
GateDeltas == {1, settings.RATE_LIMIT_REFILL_SECONDS - 1,
               Ttl - settings.RATE_LIMIT_REFILL_SECONDS + 1}

AnalyzeGate ==
    /\ analyze_sector("alice", GoodSector, "ok")
    /\ reply' = [op |-> "analyze", code |-> status'["alice"],
                 value |-> admission(sessions, "alice", settings, wall, mono).session]
    /\ UNCHANGED <<verdict, admitted, calls, inflight, users_db, flow, fileVars>>

TickGate == TickBy(GateDeltas, MaxGateTicks)

NextGate == AnalyzeGate \/ TickGate

SpecGate == Init /\ [][NextGate]_vars

----------------------------------------------------------------------------
(* The admission gate with one identity that keeps requesting while the     *)
(* clock keeps advancing.  After MaxFairTicks clock advances the run goes   *)
(* on only for an identity that was refused: the clock advances until her   *)
(* bucket is due for a refill, and she requests until she is not refused.   *)

\* alice has a session whose bucket is empty and not yet due for a refill
Waiting ==
    /\ "alice" \in DOMAIN sessions
    /\ sessions["alice"].rate_limiter.tokens = 0
    /\ mono - sessions["alice"].rate_limiter.last_refill
           < sessions["alice"].rate_limiter.refill_seconds

AnalyzeFair ==
    /\ ticks < MaxFairTicks \/ RateLimited(status["alice"])
    /\ analyze_sector("alice", GoodSector, "ok")
    /\ RecordVerdict("alice")
    /\ UNCHANGED <<admitted, calls, auxVars>>

TickFair == TickBy(GateDeltas, IF Waiting THEN ticks + 1 ELSE MaxFairTicks)

NextFair == AnalyzeFair \/ TickFair

\* the clock advances, and alice, by the premise of the property, keeps
\* requesting
SpecFair == Init /\ [][NextFair]_vars /\ WF_vars(TickFair) /\ WF_vars(AnalyzeFair)

----------------------------------------------------------------------------
(* The admission gate with one identity under two clocks that go their own  *)
(* ways: time.monotonic() only advances, the wall clock of                  *)
(* datetime.now(timezone.utc) may be set forward or back                    *)

\* what the wall clock is set forward or back by
WallDeltas == {0 - (Ttl + 1), 0 - 1, 1, Ttl + 1}

\* what the monotonic clock advances by
MonoDeltas == {1, settings.RATE_LIMIT_REFILL_SECONDS}

WallChange ==
    /\ ticks < MaxClockTicks
    /\ \E d \in WallDeltas : wall' = wall + d
    /\ ticks' = ticks + 1
    /\ UNCHANGED <<settings, sessions, mono, status, verdict, admitted, calls,
                   limiter, history, auxVars>>

MonoAdvance ==
    /\ ticks < MaxClockTicks
    /\ \E d \in MonoDeltas : mono' = mono + d
    /\ ticks' = ticks + 1
    /\ UNCHANGED <<settings, sessions, wall, status, verdict, admitted, calls,
                   limiter, history, auxVars>>

NextClocks == AnalyzeGate \/ WallChange \/ MonoAdvance

SpecClocks == Init /\ [][NextClocks]_vars

----------------------------------------------------------------------------
(* Reports saved in any order into a directory that may hold files of       *)
(* earlier runs                                                             *)

\* the filenames reports are saved under: none, 't_by_g.md' as
\* LLMClient.analyze builds them, one with two '_by_', 'r.md', and 'r'
Filenames ==
    {<<>>,
     <<"t", "_", "b", "y", "_", "g", ".", "m", "d">>,
     <<"t", "_", "b", "y", "_", "g", "_", "b", "y", "_", "h", ".", "m", "d">>,
     <<"r", ".", "m", "d">>,
     <<"r">>}

\* the texts saved: one with whitespace around it
Texts == {<<"x">>, <<" ", "y", " ">>}

\* files of earlier runs that carry a counter
Leftovers ==
    {<<"t", "_", "(", "2", ")", "_", "b", "y", "_", "g", ".", "m", "d">>,
     <<"r", "_", "(", "3", ")", ".", "m", "d">>}

InitReports ==
    /\ settings = DefaultSettings
    /\ Settings_init(settings, "secret")
    /\ Started
    /\ \E left \in SUBSET Leftovers : reports = [f \in left |-> <<"o">>]
    /\ saved = {}

Save ==
    /\ Cardinality(DOMAIN reports) < MaxReports
    /\ \E markdown_text \in Texts, filename \in Filenames :
          LET r == save_analysis_report(reports, markdown_text, filename, wall) IN
          /\ reports' = r.reports
          /\ saved' = saved \cup {r.file_path}
          /\ reply' = [op |-> "save_analysis_report", code |-> 0,
                       value |-> [markdown_text |-> markdown_text,
                                  filename |-> filename,
                                  file_path |-> r.file_path]]
    /\ UNCHANGED <<settings, sessions, mono, wall, ticks, status, verdict,
                   admitted, calls, limiter, history, inflight, users_db, flow>>

TickReports == TickBy({1}, MaxReportTicks)

NextReports == Save \/ TickReports

SpecReports == InitReports /\ [][NextReports]_vars

----------------------------------------------------------------------------
(* The analyze endpoint asked for sectors of every shape *)

\* the sectors of tests/test_input_validation.py, over the alphabet of the
\* model: too short, shortest, 30, 31, 50 and 51 letters, with a digit, with
\* '_', '.', '-', '@', '+' alone, with a space between letters, only spaces,
\* and letters within spaces
SectorInputs ==
    {Rep("a", 1), Rep("a", 2), Rep("b", 30), Rep("a", 31), Rep("a", 50),
     Rep("a", 51),
     <<"a", "b", "1">>, <<"1", "1">>, <<"a", "_", "b">>, <<"a", ".", "b">>,
     <<"a", "-", "b">>, <<"a", "@", "b">>, <<"+">>, <<"a", " ", "b">>,
     Rep(" ", 3), <<" ", "a", "b", " ">>}

\* alice asks for one of them
AnalyzeSectorInput ==
    \E sector \in SectorInputs :
        /\ analyze_sector("alice", sector, "ok")
        /\ reply' = [op |-> "analyze", code |-> status'["alice"], value |-> sector]
        /\ UNCHANGED <<verdict, admitted, calls, inflight, users_db, flow, fileVars>>

\* clock advances of these runs: a second, and a refill interval
TickSector == TickBy({1, settings.RATE_LIMIT_REFILL_SECONDS}, MaxSectorTicks)

NextSector == AnalyzeSectorInput \/ TickSector

SpecSector == Init /\ [][NextSector]_vars

----------------------------------------------------------------------------
(* The analyze endpoint under any Authorization header *)

\* the headers requests are made with at instant now: none, a token without
\* the Bearer prefix, a string that is no JWT, a token signed with another
\* key, an expired one, one without subject, and good ones
Headers(now) ==
    LET good(u) == create_access_token([sub |-> u], Ttl, now) IN
    {[scheme |-> "None", token |-> NoToken],
     [scheme |-> "", token |-> good("alice")],
     [scheme |-> "Bearer", token |-> NoToken],
     [scheme |-> "Bearer", token |-> [good("alice") EXCEPT !.key = "wrong_secret_key"]],
     [scheme |-> "Bearer", token |-> create_access_token([sub |-> "alice"], 0 - Ttl, now)],
     [scheme |-> "Bearer", token |-> create_access_token([sub |-> "alice"], Ttl, 0)],
     [scheme |-> "Bearer", token |-> create_access_token([sub |-> "None"], Ttl, now)]}
        \cup {[scheme |-> "Bearer", token |-> good(u)] : u \in Users}

\* GET /analyze/{sector} with the header: oauth2_scheme, get_current_user,
\* then the handler
bearer_request(header, sector, outcome) ==
    IF oauth2_scheme(header) = <<>>
    THEN UNCHANGED <<settings, sessions, mono, wall, ticks, limiter, history, status>>
    ELSE analyze_request(oauth2_scheme(header)[1], sector, outcome)

\* the status code of the response
bearer_code(header) ==
    IF oauth2_scheme(header) = <<>> THEN 401
    ELSE LET current_user == get_current_user(oauth2_scheme(header)[1], wall) IN
         IF current_user = "401" THEN 401 ELSE status'[current_user]

AnalyzeBearer ==
    \E header \in Headers(wall) :
        /\ bearer_request(header, GoodSector, "ok")
        /\ reply' = [op |-> "analyze", code |-> bearer_code(header), value |-> header]
        /\ UNCHANGED <<verdict, admitted, calls, inflight, users_db, flow, fileVars>>

\* clock advances of these runs: a second, and a second more than the token
\* lifetime
TickBearer == TickBy({1, Ttl + 1}, MaxBearerTicks)

NextBearer == AnalyzeBearer \/ TickBearer

SpecBearer == Init /\ [][NextBearer]_vars

----------------------------------------------------------------------------
(* The session manager used on its own: its operations called in any order,  *)
(* for two identities, and the health endpoint that reads its count          *)

GetSession ==
    /\ \E client_id \in Users :
          /\ sessions' = get_session(sessions, client_id, settings, wall, mono)
          /\ reply' = [op |-> "get_session", code |-> 0, value |-> client_id]
    /\ UNCHANGED <<settings, mono, wall, ticks, status, verdict, admitted, calls,
                   limiter, history, inflight, users_db, flow, fileVars>>

\* SessionInfo.allow_request on a session get_session returned
AllowRequest ==
    /\ \E client_id \in DOMAIN sessions :
          /\ sessions[client_id].usage_count < MaxUsage
          /\ LET r == SessionInfo_allow_request(sessions[client_id], mono) IN
                /\ sessions' = [sessions EXCEPT ![client_id] = r.session]
                /\ reply' = [op |-> "allow_request", code |-> 0, value |-> r.allowed]
    /\ UNCHANGED <<settings, mono, wall, ticks, status, verdict, admitted, calls,
                   limiter, history, inflight, users_db, flow, fileVars>>

\* the reply keeps what `pop` gave back, which remove_session drops
RemoveSession ==
    /\ \E client_id \in Users :
          /\ sessions' = remove_session(sessions, client_id)
          /\ reply' = [op |-> "remove_session", code |-> 0,
                       value |-> <<client_id,
                                   IF client_id \in DOMAIN sessions
                                   THEN "SessionInfo" ELSE "None">>]
    /\ UNCHANGED <<settings, mono, wall, ticks, status, verdict, admitted, calls,
                   limiter, history, inflight, users_db, flow, fileVars>>

CleanupExpiredSessions ==
    /\ LET r == cleanup_expired_sessions(sessions, wall) IN
          /\ sessions' = r.sessions
          /\ reply' = [op |-> "cleanup_expired_sessions", code |-> 0,
                       value |-> r.removed]
    /\ UNCHANGED <<settings, mono, wall, ticks, status, verdict, admitted, calls,
                   limiter, history, inflight, users_db, flow, fileVars>>

\* app/api/v1/endpoints/health.py: GET /health, which takes no token
Health ==
    /\ reply' = [op |-> "health", code |-> 200, value |-> active_sessions(sessions)]
    /\ UNCHANGED <<settings, sessions, mono, wall, ticks, status, verdict,
                   admitted, calls, limiter, history, inflight, users_db, flow, fileVars>>

\* clock advances of these runs: a second, and the session lifetime
DirectoryDeltas == {1, Ttl}

TickDirectory == TickBy(DirectoryDeltas, MaxDirectoryTicks)

NextDirectory ==
    GetSession \/ AllowRequest \/ RemoveSession \/ CleanupExpiredSessions
        \/ Health \/ TickDirectory

SpecDirectory == Init /\ [][NextDirectory]_vars

(* The session manager's operations and the requests of one identity, in    *)
(* any order                                                                *)

NextLifetime == NextDirectory \/ AnalyzeGate

SpecLifetime == Init /\ [][NextLifetime]_vars

----------------------------------------------------------------------------
(* Every endpoint of the service: register, login, health, and analyze      *)
(* under any Authorization header with sectors that validate or not         *)

RegisterFrame ==
    /\ \E username \in Users : register_request(username, "secret1")
    /\ UNCHANGED flow

LoginFrame ==
    /\ \E username \in Users, password \in {"secret1", "secret2"} :
          login_request(username, password)
    /\ UNCHANGED flow

\* the headers of these runs: none, a token signed with another key, and
\* good ones
FrameHeaders(now) ==
    {header \in Headers(now) :
        \/ header.scheme = "None"
        \/ header.scheme = "Bearer" /\ header.token.key = "wrong_secret_key"
        \/ header.scheme = "Bearer" /\ get_current_user(header.token, now) \in Users}

AnalyzeFrame ==
    \E header \in FrameHeaders(wall), sector \in Sectors :
        /\ bearer_request(header, sector, "ok")
        /\ reply' = [op |-> "analyze", code |-> bearer_code(header),
                     value |-> [header |-> header, sector |-> sector]]
        /\ UNCHANGED <<verdict, admitted, calls, inflight, users_db, flow, fileVars>>

TickFrame == TickBy({1, Ttl + 1}, MaxFrameTicks)

NextFrame == RegisterFrame \/ LoginFrame \/ Health \/ AnalyzeFrame \/ TickFrame

SpecFrame == Init /\ [][NextFrame]_vars

----------------------------------------------------------------------------
(* A RateLimiter used on its own, constructed with any capacity and        *)
(* refill interval                                                         *)

NewRateLimiter ==
    /\ \E capacity \in 1..MaxCapacity, refill_seconds \in 1..MaxRefill :
          limiter' = RateLimiter_init(capacity, refill_seconds, mono)
    /\ history' = [born |-> mono, calls |-> <<>>]
    /\ UNCHANGED <<mono, sysVars>>

LimiterAllowRequest ==
    /\ limiter # NoLimiter
    /\ Len(history.calls) < MaxCalls
    /\ LET r == RateLimiter_allow_request(limiter, mono) IN
          /\ limiter' = r.limiter
          /\ history' = [history EXCEPT !.calls =
                             Append(@, [at |-> mono, allowed |-> r.allowed])]
    /\ UNCHANGED <<mono, sysVars>>

LimiterTick ==
    /\ mono < MaxMono
    /\ mono' = mono + 1
    /\ UNCHANGED <<limiter, history, sysVars>>

NextLimiter == NewRateLimiter \/ LimiterAllowRequest \/ LimiterTick

SpecLimiter == Init /\ [][NextLimiter]_vars

----------------------------------------------------------------------------
(* Properties of the token bucket (SpecLimiter) *)

\* the step is a call of allow_request on the stand-alone limiter
LimiterCalled == Len(history'.calls) = Len(history.calls) + 1

LastCall == history.calls[Len(history.calls)]

\* C1: in every reachable state of a RateLimiter, whatever its capacity and
\* refill interval and however its calls and the clock interleave,
\* 0 <= tokens <= capacity.
C1_TokensWithinCapacity ==
    limiter # NoLimiter =>
        /\ 0 <= limiter.tokens
        /\ limiter.tokens <= limiter.capacity

\* a bucket that still held tokens was refilled and consumed from again
C1_Witness ==
    /\ limiter.capacity >= 2
    /\ Len(history.calls) = 2
    /\ history.calls[1].allowed /\ history.calls[2].allowed
    /\ history.calls[2].at - history.born >= limiter.refill_seconds
    /\ limiter.last_refill = history.calls[2].at
    /\ limiter.tokens = limiter.capacity - 1

\* every call so far was made less than one refill interval after construction
InFirstInterval ==
    \A i \in 1..Len(history.calls) :
        history.calls[i].at - history.born < limiter.refill_seconds

\* C2: a freshly constructed bucket answers true to exactly `capacity`
\* consecutive calls and false to the next ones, when all calls are made less
\* than one refill interval after its construction.
C2_FreshBucketGrantsCapacity ==
    (limiter # NoLimiter /\ InFirstInterval) =>
        \A i \in 1..Len(history.calls) :
            history.calls[i].allowed <=> (i <= limiter.capacity)

\* capacity + 1 calls in the first interval: the last one is refused
C2_Witness ==
    /\ limiter.capacity = MaxCapacity
    /\ InFirstInterval
    /\ Len(history.calls) = limiter.capacity + 1
    /\ \A i \in 1..limiter.capacity : history.calls[i].allowed
    /\ ~LastCall.allowed

\* C5: partial time grants nothing: a call on a drained bucket made less than
\* one refill interval after last_refill returns false and leaves the bucket
\* (tokens = 0, last_refill) as it was.
C5_NoPartialRefill ==
    [][(/\ LimiterCalled
        /\ limiter.tokens = 0
        /\ 0 <= mono - limiter.last_refill
        /\ mono - limiter.last_refill < limiter.refill_seconds)
       => (/\ ~history'.calls[Len(history'.calls)].allowed
           /\ limiter' = limiter)]_vars

\* a drained bucket was called after a part of an interval, following an
\* earlier refill, and refused
C5_Witness ==
    /\ Len(history.calls) >= 2
    /\ ~LastCall.allowed
    /\ limiter.tokens = 0
    /\ limiter.last_refill > history.born
    /\ LastCall.at > limiter.last_refill
    /\ LastCall.at - limiter.last_refill < limiter.refill_seconds

----------------------------------------------------------------------------
(* Properties of the admission gate *)

\* the step is a request of identity u that passed sector validation
Request(u) ==
    /\ ticks' = ticks
    /\ status'[u] \notin {0, 400}
    /\ \E outcome \in Outcomes : analyze_sector(u, GoodSector, outcome)

\* the step is any request of identity u
AnyRequest(u) ==
    /\ ticks' = ticks
    /\ \/ analyze_sector(u, BadSector, "ok")
       \/ \E outcome \in Outcomes : analyze_sector(u, GoodSector, outcome)

Restrict(ss, U) == [x \in (DOMAIN ss) \cap U |-> ss[x]]

\* C3: an identity is admitted at most RATE_LIMIT_CAPACITY times in any span
\* of RATE_LIMIT_REFILL_SECONDS seconds: its latest RATE_LIMIT_CAPACITY + 1
\* admissions never lie less than one refill interval apart.
C3_AtMostCapacityPerSpan ==
    \A u \in Users :
        LET n == Len(admitted[u]) IN
        n > RATE_LIMIT_CAPACITY =>
            admitted[u][n] - admitted[u][n - RATE_LIMIT_CAPACITY]
                >= RATE_LIMIT_REFILL_SECONDS

\* C4: a request of an unexpired session whose bucket is drained is admitted
\* as soon as a whole refill interval has passed since last_refill (the
\* interval itself included) and leaves capacity - 1 tokens; a request that
\* finds a token is admitted; a request on a drained bucket within the
\* interval is rate limited.
C4_RefillAfterWholeInterval ==
    [][\A u \in Users :
          (/\ Request(u)
           /\ u \in DOMAIN sessions
           /\ ~(wall - sessions[u].created_at > sessions[u].expires_in))
          => LET rl == sessions[u].rate_limiter
                 elapsed == mono - rl.last_refill
             IN /\ u \in DOMAIN sessions'
                /\ (rl.tokens = 0 /\ elapsed >= rl.refill_seconds)
                      => /\ Allowed(status'[u])
                         /\ sessions'[u].rate_limiter.tokens = rl.capacity - 1
                /\ rl.tokens > 0 => Allowed(status'[u])
                /\ (rl.tokens = 0 /\ elapsed < rl.refill_seconds)
                      => RateLimited(status'[u])]_vars

\* five admissions, a refusal, and an admission 61 seconds after the first
C4_Witness ==
    /\ "alice" \in DOMAIN sessions
    /\ verdict["alice"] = <<"RateLimited", "Allowed">>
    /\ calls["alice"] = RATE_LIMIT_CAPACITY + 1
    /\ sessions["alice"].usage_count = RATE_LIMIT_CAPACITY + 1
    /\ sessions["alice"].rate_limiter.tokens = RATE_LIMIT_CAPACITY - 1
    /\ sessions["alice"].rate_limiter.last_refill
          = sessions["alice"].created_at + RATE_LIMIT_REFILL_SECONDS + 1
    /\ mono = sessions["alice"].rate_limiter.last_refill

\* C6: usage_count of a session is the number of its allow_request calls
\* that returned true; a refused call leaves it alone, and it never decreases.
C6_UsageCountsAllowedCalls ==
    /\ [](\A u \in DOMAIN sessions : sessions[u].usage_count = calls[u])
    /\ [][\A u \in (DOMAIN sessions) \cap (DOMAIN sessions') :
             /\ sessions'[u].usage_count >= sessions[u].usage_count
             /\ (Request(u) /\ RateLimited(status'[u]))
                   => sessions'[u].usage_count = sessions[u].usage_count]_vars

\* two windows used up and a refusal after them
C6_Witness ==
    /\ "alice" \in DOMAIN sessions
    /\ RateLimited(status["alice"])
    /\ sessions["alice"].usage_count = 2 * RATE_LIMIT_CAPACITY
    /\ calls["alice"] = 2 * RATE_LIMIT_CAPACITY

\* C7: a request finds its session expired exactly when the session is older
\* than its lifetime (at the lifetime itself it is not expired); a session
\* just created is not expired; the check leaves the session's creation time
\* and lifetime alone.
C7_ExpiredIffOlderThanTtl ==
    [][\A u \in Users :
          Request(u) =>
             /\ u \in DOMAIN sessions =>
                   (SessionExpired(status'[u]) <=>
                       wall - sessions[u].created_at > sessions[u].expires_in)
             /\ u \notin DOMAIN sessions => ~SessionExpired(status'[u])
             /\ u \in (DOMAIN sessions) \cap (DOMAIN sessions') =>
                   /\ sessions'[u].created_at = sessions[u].created_at
                   /\ sessions'[u].expires_in = sessions[u].expires_in]_vars

\* a request made when the session is exactly as old as its lifetime is
\* admitted (its bucket was refilled at this very instant)
C7_Witness ==
    /\ "alice" \in DOMAIN sessions
    /\ Allowed(status["alice"])
    /\ wall - sessions["alice"].created_at = sessions["alice"].expires_in
    /\ sessions["alice"].rate_limiter.last_refill = mono

\* C8: a request that finds its identity's session expired is answered 401,
\* the session leaves the directory and the directory's count drops by one.
C8_ExpiredSessionEvicted ==
    /\ [](\A u \in Users : SessionExpired(status[u]) => u \notin DOMAIN sessions)
    /\ [][\A u \in Users :
             (/\ Request(u)
              /\ u \in DOMAIN sessions
              /\ wall - sessions[u].created_at > sessions[u].expires_in)
             => /\ status'[u] = 401
                /\ u \notin DOMAIN sessions'
                /\ active_sessions(sessions') = active_sessions(sessions) - 1]_vars

\* bob's expired session is gone, alice's session is the one that is counted
C8_Witness ==
    /\ SessionExpired(status["bob"])
    /\ "bob" \notin DOMAIN sessions
    /\ "alice" \in DOMAIN sessions
    /\ active_sessions(sessions) = 1
    /\ wall > Ttl

\* C9: the admission that follows a SessionExpired verdict of an identity
\* creates a new session (created now, bucket full) and is Allowed: after it
\* the session has usage_count 1 and capacity - 1 tokens.
C9_FreshSessionAfterExpiry ==
    /\ [](\A u \in Users :
             verdict[u][1] = "SessionExpired" =>
                /\ verdict[u][2] = "Allowed"
                /\ u \in DOMAIN sessions
                /\ sessions[u].usage_count = 1
                /\ sessions[u].rate_limiter.capacity = settings.RATE_LIMIT_CAPACITY
                /\ sessions[u].rate_limiter.tokens = settings.RATE_LIMIT_CAPACITY - 1)
    /\ [][\A u \in Users :
             (Request(u) /\ verdict[u][2] = "SessionExpired")
             => /\ Allowed(status'[u])
                /\ u \in DOMAIN sessions'
                /\ sessions'[u].created_at = wall
                /\ sessions'[u].rate_limiter.last_refill = mono]_vars

\* alice was told SessionExpired and then admitted on a session created
\* after the lifetime of her first one
C9_Witness ==
    /\ verdict["alice"] = <<"SessionExpired", "Allowed">>
    /\ "alice" \in DOMAIN sessions
    /\ sessions["alice"].created_at > Ttl

\* C10: the requests of one identity leave the session and the response of
\* every other identity alone; the verdict and the session a request of b
\* yields are those it would yield with every other identity's session
\* erased; and the first request of an identity is Allowed with the full
\* quota, whatever the other identities did.
C10_IdentityIsolation ==
    /\ [](\A b \in Users :
             LET full == admission(sessions, b, settings, wall, mono)
                 alone == admission(Restrict(sessions, {b}), b, settings, wall, mono)
             IN /\ full.code = alone.code
                /\ Restrict(full.sessions, {b}) = Restrict(alone.sessions, {b}))
    /\ [][\A a \in Users :
             AnyRequest(a) =>
                \A b \in Users \ {a} :
                   /\ status'[b] = status[b]
                   /\ Restrict(sessions', {b}) = Restrict(sessions, {b})]_vars
    /\ [][\A b \in Users :
             (Request(b) /\ b \notin DOMAIN sessions)
             => /\ Allowed(status'[b])
                /\ b \in DOMAIN sessions'
                /\ sessions'[b].rate_limiter.tokens = settings.RATE_LIMIT_CAPACITY - 1
                /\ sessions'[b].usage_count = 1]_vars

\* alice drained her bucket and was refused; bob, whose session was created
\* later, was admitted and has the rest of his own quota
C10_Witness ==
    /\ DOMAIN sessions = Users
    /\ RateLimited(status["alice"])
    /\ sessions["alice"].rate_limiter.tokens = 0
    /\ sessions["bob"].created_at > sessions["alice"].rate_limiter.last_refill
    /\ Allowed(status["bob"])
    /\ sessions["bob"].usage_count = 1
    /\ sessions["bob"].rate_limiter.tokens = RATE_LIMIT_CAPACITY - 1

----------------------------------------------------------------------------
(* Properties of concurrent requests of one identity (SpecConcurrent) *)

\* the session is in the refill interval it was created in
InCreationInterval(session) ==
    wall - session.created_at < session.rate_limiter.refill_seconds

\* C11: however the concurrent requests of one identity interleave, the
\* bucket of its session never holds fewer than 0 tokens and usage_count is
\* the number of requests admitted on it; within the refill interval the
\* session was created in, no more than capacity requests are admitted,
\* every admission took exactly one token and last_refill is untouched.
C11_AdmissionAtomic ==
    \A u \in DOMAIN sessions :
        LET session == sessions[u]
            rl == session.rate_limiter
        IN /\ rl.tokens >= 0
           /\ session.usage_count = calls[u]
           /\ InFlight(u) <= calls[u]
           /\ InCreationInterval(session) =>
                  /\ calls[u] <= rl.capacity
                  /\ rl.tokens = rl.capacity - calls[u]
                  /\ rl.last_refill = mono - (wall - session.created_at)

\* capacity requests of one identity wait at an await together, a further
\* one was refused meanwhile, all within the interval the session was
\* created in
C11_Witness ==
    /\ "alice" \in DOMAIN sessions
    /\ InCreationInterval(sessions["alice"])
    /\ inflight["alice"].collecting > 0
    /\ inflight["alice"].generating > 0
    /\ InFlight("alice") = sessions["alice"].rate_limiter.capacity
    /\ status["alice"] = 429

\* a request of u with a valid sector starts
Enters(u) == ticks' = ticks /\ analyze_sector_enter(u, GoodSector)

\* C12: the directory holds one session per identity, filed under its own
\* identity; get_session on an identity that has a session changes nothing;
\* a request that finds no session creates one and consumes from it, and a
\* request that finds an unexpired session consumes from that very session
\* (same created_at, lifetime and bucket parameters, usage_count and tokens
\* moved by its own admission only), however many requests are in flight.
C12_OneSessionPerIdentity ==
    /\ [](\A u \in DOMAIN sessions :
            /\ sessions[u].client_id = u
            /\ get_session(sessions, u, settings, wall, mono) = sessions)
    /\ [][\A u \in Users :
             Enters(u) /\ u \in DOMAIN sessions' =>
                 sessions'[u] =
                     SessionInfo_allow_request(
                         IF u \in DOMAIN sessions THEN sessions[u]
                         ELSE SessionInfo_init(u, settings, wall, mono),
                         mono).session]_vars

\* three requests of one identity are in flight, all started at the instant
\* the first of them created the session, and all three consumed from it
C12_Witness ==
    /\ "alice" \in DOMAIN sessions
    /\ sessions["alice"].created_at = wall
    /\ inflight["alice"].collecting = 2
    /\ inflight["alice"].generating = 1
    /\ sessions["alice"].usage_count = 3
    /\ sessions["alice"].rate_limiter.tokens =
           sessions["alice"].rate_limiter.capacity - 3

----------------------------------------------------------------------------
(* Properties of the session manager used on its own (SpecDirectory) *)

\* the step is a call of the directory operation op
Called(op) == ticks' = ticks /\ reply'.op = op

Expired(ss, wallNow) == {u \in DOMAIN ss : is_expired(ss[u], wallNow)}

\* C13: remove_session of an identity takes that identity, and nothing
\* else, out of the directory; when the identity has no session the
\* directory stays as it is; removing it once more changes nothing further.
C13_RemoveIdempotent ==
    [][\A u \in Users :
          Called("remove_session") /\ reply'.value[1] = u =>
              /\ sessions' = Restrict(sessions, Users \ {u})
              /\ u \notin DOMAIN sessions => sessions' = sessions
              /\ remove_session(sessions', u) = sessions'
              /\ remove_session(remove_session(sessions, u), u) = sessions']_vars

\* alice was removed when she had no session, bob's used session is still
\* there
C13_Witness ==
    /\ reply = [op |-> "remove_session", code |-> 0, value |-> <<"alice", "None">>]
    /\ DOMAIN sessions = {"bob"}
    /\ sessions["bob"].usage_count = 1

\* C14: cleanup_expired_sessions removes exactly the sessions that are
\* expired when it is called and returns their number; the sessions that are
\* not expired stay as they were; directly after it no session is expired
\* and active_sessions dropped by the number returned.
C14_CleanupRemovesExpired ==
    [][Called("cleanup_expired_sessions") =>
          /\ DOMAIN sessions' = DOMAIN sessions \ Expired(sessions, wall)
          /\ \A u \in DOMAIN sessions' : sessions'[u] = sessions[u]
          /\ reply'.value = Cardinality(Expired(sessions, wall))
          /\ Expired(sessions', wall') = {}
          /\ active_sessions(sessions') = active_sessions(sessions) - reply'.value]_vars

\* a cleanup removed one session and left bob's: bob's session is exactly
\* as old as the lifetime, so the one removed was older, and it was used
C14_Witness ==
    /\ reply = [op |-> "cleanup_expired_sessions", code |-> 0, value |-> 1]
    /\ DOMAIN sessions = {"bob"}
    /\ wall - sessions["bob"].created_at = sessions["bob"].expires_in
    /\ sessions["bob"].usage_count = 1

\* C15: the health endpoint reports the number of identities in the
\* directory, expired sessions included, and changes nothing but its reply.
C15_HealthCountsDirectory ==
    [][Called("health") =>
          /\ reply'.code = 200
          /\ reply'.value = Cardinality(DOMAIN sessions)
          /\ UNCHANGED <<sessions, settings, users_db, status>>]_vars

\* health reported two sessions while one of them was expired
C15_Witness ==
    /\ reply = [op |-> "health", code |-> 200, value |-> 2]
    /\ Cardinality(Expired(sessions, wall)) = 1

----------------------------------------------------------------------------
(* Properties of a deployment with its own configuration (SpecConfigured) *)

\* C16: a configuration with a capacity or a refill interval of zero or
\* less never gets as far as a request: no session carries a bucket with
\* capacity <= 0 or refill_seconds <= 0, no request fails in allow_request
\* and no bucket holds a negative number of tokens.
C16_BadConfigurationRejected ==
    /\ \A u \in DOMAIN sessions :
          /\ sessions[u].rate_limiter.capacity > 0
          /\ sessions[u].rate_limiter.refill_seconds > 0
          /\ sessions[u].rate_limiter.tokens >= 0
    /\ \A u \in Users : status[u] # 500

----------------------------------------------------------------------------
(* Properties of the service under a changing configuration               *)
(* (SpecReconfigured)                                                      *)

\* C17: a session keeps the lifetime, capacity and refill interval it was
\* constructed with for as long as it is in the directory, whatever is
\* assigned to the configuration meanwhile; a step that changes the
\* configuration changes no session; a session constructed by a request
\* carries the values configured at that request.
C17_ConfigurationReadAtConstruction ==
    [][/\ settings' # settings => sessions' = sessions
       /\ \A u \in DOMAIN sessions' :
             IF u \in DOMAIN sessions
             THEN /\ sessions'[u].expires_in = sessions[u].expires_in
                  /\ sessions'[u].rate_limiter.capacity =
                         sessions[u].rate_limiter.capacity
                  /\ sessions'[u].rate_limiter.refill_seconds =
                         sessions[u].rate_limiter.refill_seconds
             ELSE /\ sessions'[u].expires_in =
                         settings.ACCESS_TOKEN_EXPIRE_MINUTES * 60
                  /\ sessions'[u].rate_limiter.capacity =
                         settings.RATE_LIMIT_CAPACITY
                  /\ sessions'[u].rate_limiter.refill_seconds =
                         settings.RATE_LIMIT_REFILL_SECONDS]_vars

\* alice's session was constructed under a configuration other than the
\* shipped one, all three values were assigned since, and her session, still
\* carrying the old ones, has refused a request at its own capacity of 1
C17_Witness ==
    /\ "alice" \in DOMAIN sessions
    /\ sessions["alice"].expires_in < Ttl
    /\ sessions["alice"].rate_limiter.capacity = 1
    /\ sessions["alice"].rate_limiter.refill_seconds = 1
    /\ settings = DefaultSettings
    /\ sessions["alice"].usage_count = 2
    /\ status["alice"] = 429

----------------------------------------------------------------------------
(* Properties of the register and login endpoints (SpecAuth) *)

\* the step is a registration of (username, password)
Registers(username, password) ==
    /\ ticks' = ticks
    /\ reply'.op = "register"
    /\ status' = status
    /\ register_request(username, password)

\* the step is a login of (username, password)
Logins(username, password) ==
    /\ ticks' = ticks
    /\ reply'.op = "login"
    /\ status' = status
    /\ login_request(username, password)

\* the step is a request to the analyze endpoint with the token the client
\* holds
Analyzes ==
    /\ ticks' = ticks
    /\ reply' = reply
    /\ HasToken
    /\ analyze_request(reply.value, GoodSector, "ok")

\* C18 as stated: every registration of a username that is in the user store
\* is answered 400, carries no token and leaves the user store as it is.
C18_DuplicateAnswered400 ==
    [][\A username \in Usernames, password \in Passwords :
          Registers(username, password) /\ username \in DOMAIN users_db =>
              /\ reply'.code = 400
              /\ reply'.value = NoToken
              /\ users_db' = users_db]_vars

\* C18, amended: a registration of a username that is in the user store is
\* answered 400 when its body is well-formed and 422 when it is not,
\* carries no token and leaves the user store as it is; a registration is
\* answered 201 only for a username that was not there, and adds an entry
\* for that username and no other; no step changes or removes an entry of
\* the store, so every username maps to what its first successful
\* registration stored for it.
C18_DuplicateRejected ==
    [][/\ \A username \in Usernames, password \in Passwords :
            Registers(username, password) =>
                /\ username \in DOMAIN users_db =>
                       /\ reply'.code =
                              IF UserRegister(username, password) THEN 400 ELSE 422
                       /\ reply'.value = NoToken
                       /\ users_db' = users_db
                /\ reply'.code = 201 =>
                       /\ username \notin DOMAIN users_db
                       /\ DOMAIN users_db' = DOMAIN users_db \cup {username}
       /\ \A username \in DOMAIN users_db :
             /\ username \in DOMAIN users_db'
             /\ users_db'[username] = users_db[username]]_vars

\* alice, registered with the password secret2, was turned away with 400
\* when she registered again, and can still log in with secret2
C18_Witness ==
    /\ reply = [op |-> "register", code |-> 400, value |-> NoToken]
    /\ DOMAIN users_db = {"alice"}
    /\ flow.password = "secret2"
    /\ authenticate_user(users_db, "alice", "secret2") = "alice"

\* C19: a login is answered 200 with a token for the username exactly when
\* the username is in the user store and the password is the one whose
\* hash is stored; otherwise it is answered 401 with no token; either way
\* it changes neither the user store nor the session directory.
C19_LoginIffCredentialsMatch ==
    [][\A username \in Usernames, password \in Passwords :
          Logins(username, password) =>
              /\ IF /\ username \in DOMAIN users_db
                    /\ users_db[username] = hash_password(password)
                 THEN /\ reply'.code = 200
                      /\ reply'.value # NoToken
                      /\ reply'.value.sub = username
                 ELSE /\ reply'.code = 401
                      /\ reply'.value = NoToken
              /\ users_db' = users_db
              /\ sessions' = sessions]_vars

\* both usernames are registered, alice has a session, and a login was
\* turned away: its password was wrong
C19_Witness ==
    /\ reply = [op |-> "login", code |-> 401, value |-> NoToken]
    /\ DOMAIN users_db = Users
    /\ DOMAIN sessions = {"alice"}

\* C20: the token of a 201 registration is accepted by get_current_user as
\* the username registered, and the credentials registered authenticate;
\* alice's login with the password she registered is answered 200 whenever
\* it comes; the token of a 200 login is accepted as the username logged
\* in; and a request with an accepted token of an identity that has no
\* session is answered 200.
C20_RegisterLoginAnalyze ==
    /\ [](Len(flow.codes) >= 2 => flow.codes[1] = 201 /\ flow.codes[2] = 200)
    /\ [][\A username \in Usernames, password \in Passwords :
             /\ Registers(username, password) /\ reply'.code = 201 =>
                    /\ get_current_user(reply'.value, wall) = username
                    /\ authenticate_user(users_db', username, password) = username
             /\ Logins(username, password) /\ reply'.code = 200 =>
                    /\ reply'.value.sub = username
                    /\ get_current_user(reply'.value, wall) = username]_vars
    /\ [][\A u \in Users :
             /\ Analyzes
             /\ get_current_user(reply.value, wall) = u
             /\ u \notin DOMAIN sessions
             => status'[u] = 200]_vars

\* alice registered, logged in with the same password and made a request
\* with the token of that login: 201, 200, 200
C20_Witness == flow.codes = <<201, 200, 200>>

----------------------------------------------------------------------------
(* Properties of the analyze endpoint under any header (SpecBearer) *)

\* the header carries no token that is signed with the key of the service,
\* not past its exp and names a subject
BadCredentials(header, now) ==
    \/ header.scheme # "Bearer"
    \/ header.token.key # SECRET_KEY
    \/ header.token.exp < now
    \/ header.token.sub = "None"

\* C21: a request whose header carries no token, a malformed one, one
\* signed with another key, an expired one or one without subject is
\* answered 401 and leaves the session directory, and so every bucket and
\* usage_count, exactly as it was.
C21_BadTokenRejected ==
    [][\A header \in Headers(wall) :
          /\ ticks' = ticks
          /\ reply'.op = "analyze"
          /\ reply'.value = header
          /\ BadCredentials(header, wall)
          => /\ reply'.code = 401
             /\ sessions' = sessions]_vars

\* alice has a session she used; a request with her expired token was
\* answered 401
C21_Witness ==
    /\ reply.op = "analyze"
    /\ reply.code = 401
    /\ reply.value.scheme = "Bearer"
    /\ reply.value.token.key = SECRET_KEY
    /\ reply.value.token.sub = "alice"
    /\ reply.value.token.exp < wall
    /\ "alice" \in DOMAIN sessions
    /\ ~is_expired(sessions["alice"], wall)
    /\ sessions["alice"].usage_count = 2

----------------------------------------------------------------------------
(* Properties of sector validation (SpecSector) *)

\* the step is a request for the sector
AsksFor(sector) ==
    /\ ticks' = ticks
    /\ reply'.op = "analyze"
    /\ reply'.value = sector

\* C22: a sector of more than 30 characters is answered 400, and a sector
\* that is not answered 400 has 2 to 30 characters.
C22_LongSectorRejected ==
    [][\A sector \in SectorInputs :
          AsksFor(sector)
          => /\ Len(sector) > 30 => reply'.code = 400
             /\ reply'.code # 400 => Len(Strip(sector)) \in 2..30]_vars

\* C23: a sector with a character that is no letter, a space included, or
\* of spaces only, is answered 400 in every state of the caller's session.
C23_NonAlphabeticRejected ==
    [][\A sector \in SectorInputs :
          /\ AsksFor(sector)
          /\ \E i \in 1..Len(sector) : ~IsAlpha(sector[i])
          => reply'.code = 400]_vars

\* the sector is what the endpoint documents as valid: 2 to 30 characters,
\* all of them letters
Documented(sector) ==
    /\ Len(sector) \in 2..30
    /\ \A i \in 1..Len(sector) : IsAlpha(sector[i])

\* C31: a request with a sector that is not 2 to 30 letters is answered 400
\* and leaves the session directory as it was: no session is created or
\* removed, no token is consumed and no usage_count incremented.
C31_InvalidSectorTouchesNothing ==
    [][\A sector \in SectorInputs :
          AsksFor(sector) /\ ~Documented(sector)
          => /\ reply'.code = 400
             /\ sessions' = sessions]_vars

----------------------------------------------------------------------------
(* Properties of the downstream work of an admitted request (SpecConcurrent) *)

\* the step ends a request of alice with 502: search_news or
\* llm_client.analyze raised
Fails ==
    /\ ticks' = ticks
    /\ InFlight("alice")' = InFlight("alice") - 1
    /\ status'["alice"] = 502

\* the step admits a request of alice, which goes on to the downstream work
Passes ==
    /\ ticks' = ticks
    /\ InFlight("alice")' = InFlight("alice") + 1

\* C32: the token is taken and usage_count incremented in the step that
\* admits the request, before the downstream work; the step in which the
\* downstream work fails with 502, and every step of the downstream work,
\* leaves the session directory as it was, so the token stays consumed
\* and usage_count stays incremented.
C32_NoRefund ==
    /\ [][Passes =>
             /\ "alice" \in DOMAIN sessions'
             /\ sessions'["alice"].usage_count =
                    (IF "alice" \in DOMAIN sessions
                     THEN sessions["alice"].usage_count ELSE 0) + 1
             /\ sessions'["alice"].rate_limiter.tokens
                    < sessions'["alice"].rate_limiter.capacity
             /\ ("alice" \in DOMAIN sessions
                    /\ sessions'["alice"].rate_limiter.last_refill
                           = sessions["alice"].rate_limiter.last_refill)
                => sessions'["alice"].rate_limiter.tokens
                       = sessions["alice"].rate_limiter.tokens - 1]_vars
    /\ [][Fails => sessions' = sessions]_vars
    /\ [][(ticks' = ticks /\ InFlight("alice")' <= InFlight("alice"))
             /\ status'["alice"] \in {200, 502}
           => sessions' = sessions]_vars

\* every request admitted on alice's session has failed, and the bucket
\* is empty
C32_Witness ==
    /\ status["alice"] = 502
    /\ InFlight("alice") = 0
    /\ "alice" \in DOMAIN sessions
    /\ sessions["alice"].rate_limiter.tokens = 0
    /\ sessions["alice"].usage_count = sessions["alice"].rate_limiter.capacity
    /\ InCreationInterval(sessions["alice"])

----------------------------------------------------------------------------
(* Properties of the session directory under every endpoint (SpecFrame) *)

\* the directory holds for identity u after the step what it held before
Untouched(u) ==
    /\ u \in DOMAIN sessions' <=> u \in DOMAIN sessions
    /\ u \in DOMAIN sessions => sessions'[u] = sessions[u]

\* C33: a step that changes the session directory is an analyze request
\* whose token verifies as an identity and whose sector passed validation,
\* and it changes the entry of that identity only; register, login and
\* health leave the directory as it was.
C33_DirectoryChangedByOwnRequests ==
    /\ [][sessions' # sessions =>
             /\ reply'.op = "analyze"
             /\ ~BadCredentials(reply'.value.header, wall)
             /\ SectorParam(reply'.value.sector)
             /\ \A u \in Users \ {reply'.value.header.token.sub} : Untouched(u)]_vars
    /\ [][(ticks' = ticks /\ reply'.op \in {"register", "login", "health"})
          => sessions' = sessions]_vars

\* bob registered and logged in and has no session, while alice, who made
\* a request, has one
C33_Witness ==
    /\ reply.op = "login"
    /\ reply.code = 200
    /\ reply.value.sub = "bob"
    /\ "bob" \notin DOMAIN sessions
    /\ "alice" \in DOMAIN sessions
    /\ sessions["alice"].usage_count >= 1

----------------------------------------------------------------------------
(* Properties of the saved reports (SpecReports) *)

\* the step is a call of save_analysis_report
Saves == ticks' = ticks /\ reply'.op = "save_analysis_report"

\* name is filename with a counter in parentheses put in after its first k
\* characters
CounterAt(name, filename, k) ==
    \E counter \in 2..(MaxReports + 2) :
        name = SubSeq(filename, 1, k) \o <<"_", "(">> \o str(counter) \o <<")">>
                   \o SubSeq(filename, k + 1, Len(filename))

\* where the claim puts the counter: before the last '_by_' of the part in
\* front of the extension, or else before the extension
CounterPlace(filename) ==
    LET dot == rfind(filename, <<".">>)
        base == IF dot = 0 THEN filename ELSE SubSeq(filename, 1, dot - 1)
        by == rfind(base, <<"_", "b", "y", "_">>)
    IN IF by # 0 THEN by - 1 ELSE Len(base)

\* C24: a call of save_analysis_report returns a path that was not in the
\* directory and that no earlier call returned; every file that was in the
\* directory is still there with the content it had; the text, stripped,
\* is the content of the returned path; and when the filename asked for was
\* in the directory, the returned name is that filename with a counter in
\* parentheses before '_by_', or before the extension when it has no '_by_'.
C24_NeverOverwrites ==
    [][Saves =>
         LET call == reply'.value IN
         /\ call.file_path \notin DOMAIN reports
         /\ call.file_path \notin saved
         /\ DOMAIN reports' = DOMAIN reports \cup {call.file_path}
         /\ \A f \in DOMAIN reports : reports'[f] = reports[f]
         /\ reports'[call.file_path] = Strip(call.markdown_text)
         /\ call.filename # <<>> /\ call.filename \notin DOMAIN reports
            => call.file_path = call.filename
         /\ call.filename \in DOMAIN reports
            => \/ CounterAt(call.file_path, call.filename, CounterPlace(call.filename))
               \/ /\ rfind(call.filename, <<".">>) = 0
                  /\ CounterAt(call.file_path, call.filename \o <<".">>,
                               CounterPlace(call.filename))]_vars

\* 't_by_g.md' was in the directory with 't_(2)_by_g.md', and the report
\* saved last under 't_by_g.md' went to 't_(3)_by_g.md'
C24_Witness ==
    /\ reply.op = "save_analysis_report"
    /\ reply.value.filename = <<"t", "_", "b", "y", "_", "g", ".", "m", "d">>
    /\ reply.value.file_path =
           <<"t", "_", "(", "3", ")", "_", "b", "y", "_", "g", ".", "m", "d">>
    /\ reply.value.file_path \in DOMAIN reports
    /\ reply.value.filename \in saved
    /\ reports[reply.value.filename] # reports[reply.value.file_path]

----------------------------------------------------------------------------
(* Properties of the admission gate, the Session object watched (SpecGate) *)

\* the step is a request of alice
Admits == ticks' = ticks /\ reply'.op = "analyze"

\* the session is older than its lifetime
TooOld(session) == wall - session.created_at > session.expires_in

\* the bucket is empty and less than a refill interval has passed since its
\* last refill
Drained(rl) == rl.tokens = 0 /\ mono - rl.last_refill < rl.refill_seconds

\* C25: a request is answered with exactly one of Allowed, SessionExpired
\* and RateLimited.  It is SessionExpired exactly when the identity's
\* session is older than its lifetime, an empty bucket or not, and the
\* Session object is then left as it was found (tokens, last_refill,
\* usage_count) and taken out of the directory.  It is RateLimited exactly
\* when the session is not expired and its bucket is drained.
C25_ExpiryBeforeRateLimit ==
    [][Admits =>
         LET had == "alice" \in DOMAIN sessions
             expired == had /\ TooOld(sessions["alice"])
             drained == had /\ Drained(sessions["alice"].rate_limiter)
         IN /\ Verdict(reply'.code) \in {"Allowed", "SessionExpired", "RateLimited"}
            /\ SessionExpired(reply'.code) <=> expired
            /\ expired => /\ reply'.value = sessions["alice"]
                          /\ "alice" \notin DOMAIN sessions'
            /\ RateLimited(reply'.code) <=> (~expired /\ drained)
            /\ Allowed(reply'.code) <=> (~expired /\ ~drained)]_vars

\* a request found alice's session expired with an empty bucket, and was
\* answered SessionExpired
C25_Witness ==
    /\ reply.op = "analyze"
    /\ SessionExpired(reply.code)
    /\ reply.value.rate_limiter.tokens = 0
    /\ reply.value.usage_count = reply.value.rate_limiter.capacity
    /\ "alice" \notin DOMAIN sessions

\* C26: last_refill of a session's bucket changes only in a request made a
\* whole refill interval or more after it, and then becomes the instant of
\* the request; a request that finds the bucket drained leaves the session
\* (tokens, last_refill, usage_count) as it was and in the directory; and a
\* request made a refill interval after last_refill is Allowed although the
\* request before it was RateLimited.
C26_DeniedRequestsKeepLastRefill ==
    [][("alice" \in DOMAIN sessions /\ "alice" \in DOMAIN sessions') =>
         LET old == sessions["alice"]
             new == sessions'["alice"]
             elapsed == mono - old.rate_limiter.last_refill
             due == elapsed >= old.rate_limiter.refill_seconds
         IN /\ new.rate_limiter.last_refill # old.rate_limiter.last_refill
               => Admits /\ due /\ new.rate_limiter.last_refill = mono
            /\ Admits /\ due => new.rate_limiter.last_refill = mono
            /\ Admits /\ Drained(old.rate_limiter)
               => new = old /\ RateLimited(reply'.code)
            /\ Admits /\ RateLimited(status["alice"]) /\ due
               => Allowed(reply'.code)]_vars

\* alice was refused a second less than a refill interval, or more, after
\* the last refill of her bucket, which is still the instant her session
\* was created
C26_Witness ==
    /\ reply.op = "analyze"
    /\ RateLimited(reply.code)
    /\ "alice" \in DOMAIN sessions
    /\ sessions["alice"].rate_limiter.last_refill = sessions["alice"].created_at
    /\ mono - sessions["alice"].rate_limiter.last_refill
           >= settings.RATE_LIMIT_REFILL_SECONDS - 1

----------------------------------------------------------------------------
(* Properties of the refill step (SpecLimiter) *)

\* C27: a call made a whole refill interval or more after last_refill sets
\* tokens to capacity before it consumes, whatever was left in the bucket
\* and however many intervals went by: the call is granted and leaves
\* capacity - 1 tokens; and min(capacity, tokens + steps * capacity) is
\* capacity for every steps >= 1 and every tokens in 0..capacity.
C27_RefillRestoresCapacity ==
    [][(/\ LimiterCalled
        /\ limiter # NoLimiter
        /\ mono - limiter.last_refill >= limiter.refill_seconds)
       => /\ RateLimiter_refill(limiter, mono).tokens = limiter.capacity
          /\ limiter'.tokens = limiter.capacity - 1
          /\ limiter'.last_refill = mono
          /\ history'.calls[Len(history'.calls)].allowed
          /\ \A tokens \in 0..limiter.capacity, steps \in 1..(MaxMono + 1) :
                Min(limiter.capacity, tokens + steps * limiter.capacity)
                    = limiter.capacity]_vars

\* a bucket that had one token taken was called again two refill intervals
\* or more later, and holds capacity - 1 tokens
C27_Witness ==
    /\ limiter.capacity >= 2
    /\ Len(history.calls) = 2
    /\ history.calls[1].at = history.born
    /\ history.calls[2].at - history.calls[1].at >= 2 * limiter.refill_seconds
    /\ LastCall.allowed
    /\ limiter.tokens = limiter.capacity - 1
    /\ limiter.last_refill = LastCall.at

----------------------------------------------------------------------------
(* Properties of the gate under fairness (SpecFair) *)

\* C28: a request of an unexpired session whose bucket is empty, made a
\* refill interval or more after last_refill, is Allowed and leaves
\* capacity - 1 tokens; and an identity that was RateLimited and keeps
\* requesting while the clock advances is eventually Allowed or
\* SessionExpired.
C28_NotStarved ==
    /\ [][(/\ ticks' = ticks
            /\ "alice" \in DOMAIN sessions
            /\ ~TooOld(sessions["alice"])
            /\ sessions["alice"].rate_limiter.tokens = 0
            /\ mono - sessions["alice"].rate_limiter.last_refill
                   >= sessions["alice"].rate_limiter.refill_seconds)
           => /\ Allowed(status'["alice"])
              /\ sessions'["alice"].rate_limiter.tokens
                     = sessions["alice"].rate_limiter.capacity - 1]_vars
    /\ RateLimited(status["alice"])
          ~> (Allowed(status["alice"]) \/ SessionExpired(status["alice"]))

\* alice was refused, and her next request, made exactly a refill interval
\* after the last refill of her bucket, was Allowed
C28_Witness ==
    /\ verdict["alice"] = <<"RateLimited", "Allowed">>
    /\ "alice" \in DOMAIN sessions
    /\ sessions["alice"].rate_limiter.last_refill = mono
    /\ mono - sessions["alice"].created_at
           = sessions["alice"].rate_limiter.refill_seconds
    /\ sessions["alice"].rate_limiter.tokens
           = sessions["alice"].rate_limiter.capacity - 1

----------------------------------------------------------------------------
(* Properties of the session lifetime (SpecLifetime) *)

\* C29: no step (get_session, allow_request, remove_session,
\* cleanup_expired_sessions, health, a request that is allowed, refused or
\* refills the bucket, the clock) changes created_at or expires_in of a
\* session that stays in the directory; a session enters the directory
\* with created_at the instant of its creation and the configured lifetime;
\* and a request that finds the session older than that lifetime is
\* answered SessionExpired however recently the session was used.
C29_LifetimeFixed ==
    /\ [][\A u \in DOMAIN sessions' :
             IF u \in DOMAIN sessions
             THEN /\ sessions'[u].created_at = sessions[u].created_at
                  /\ sessions'[u].expires_in = sessions[u].expires_in
             ELSE /\ sessions'[u].created_at = wall
                  /\ sessions'[u].expires_in = Ttl]_vars
    /\ [][(/\ Admits
            /\ "alice" \in DOMAIN sessions
            /\ wall - sessions["alice"].created_at > Ttl)
           => SessionExpired(reply'.code)]_vars

\* alice's session was granted a request that refilled its bucket, and a
\* second later her request found the session expired
C29_Witness ==
    /\ reply.op = "analyze"
    /\ SessionExpired(reply.code)
    /\ reply.value.usage_count >= 2
    /\ reply.value.rate_limiter.last_refill > reply.value.created_at
    /\ mono - reply.value.rate_limiter.last_refill = 1

\* C34: a session leaves the directory only in a request of its own
\* identity that finds it expired, in remove_session called for that
\* identity, or in cleanup_expired_sessions when it is expired; a request
\* of another identity and the health endpoint leave it where it is,
\* expired or not, and health goes on counting it.
C34_SessionsLeaveOnlyWhenAsked ==
    /\ [][\A u \in DOMAIN sessions :
             u \notin DOMAIN sessions' =>
                 \/ /\ Admits
                    /\ u = "alice"
                    /\ TooOld(sessions[u])
                    /\ SessionExpired(reply'.code)
                 \/ /\ Called("remove_session")
                    /\ reply'.value[1] = u
                 \/ /\ Called("cleanup_expired_sessions")
                    /\ TooOld(sessions[u])]_vars
    /\ [][Admits => \A u \in Users \ {"alice"} : Untouched(u)]_vars
    /\ [][Called("health") =>
             /\ sessions' = sessions
             /\ reply'.value = Cardinality(DOMAIN sessions)]_vars

\* bob's session expired, alice made a request after that, and health
\* counts two sessions: bob's is still in the directory
C34_Witness ==
    /\ reply.op = "health"
    /\ reply.value = 2
    /\ "bob" \in DOMAIN sessions
    /\ TooOld(sessions["bob"])
    /\ "alice" \in DOMAIN sessions
    /\ sessions["alice"].created_at > sessions["bob"].created_at + Ttl
    /\ sessions["alice"].usage_count >= 1

----------------------------------------------------------------------------
(* Properties of the two clocks (SpecClocks) *)

\* C30: in every state, with the wall clock and the monotonic clock at any
\* distance from each other, what a request does to the bucket does not
\* depend on the wall clock and whether it finds the session expired does
\* not depend on the monotonic clock: two requests that differ in the wall
\* clock alone and both find the session unexpired get the same answer and
\* leave the same tokens, last_refill and usage_count; two requests that
\* differ in the monotonic clock alone agree on SessionExpired; and a
\* change of the wall clock changes no session.
C30_ClocksIndependent ==
    /\ [](\A u \in Users, d \in WallDeltas :
            LET a == admission(sessions, u, settings, wall, mono)
                b == admission(sessions, u, settings, wall + d, mono)
            IN (~SessionExpired(a.code) /\ ~SessionExpired(b.code))
               => /\ a.code = b.code
                  /\ a.session.rate_limiter = b.session.rate_limiter
                  /\ a.session.usage_count = b.session.usage_count)
    /\ [](\A u \in Users, d \in MonoDeltas :
            LET a == admission(sessions, u, settings, wall, mono)
                b == admission(sessions, u, settings, wall, mono + d)
            IN /\ SessionExpired(a.code) <=> SessionExpired(b.code)
               /\ a.session.created_at = b.session.created_at
               /\ a.session.expires_in = b.session.expires_in)
    /\ [][wall' # wall => sessions' = sessions]_vars

\* after the monotonic clock advanced and the wall clock was set back
\* behind the creation of alice's session, her request refilled the bucket
\* and was Allowed
C30_Witness ==
    /\ reply.op = "analyze"
    /\ Allowed(reply.code)
    /\ "alice" \in DOMAIN sessions
    /\ sessions["alice"].created_at > wall
    /\ sessions["alice"].rate_limiter.last_refill = mono
    /\ sessions["alice"].usage_count >= 2

====
